---- MODULE Spec2Model ----
(***************************************************************************)
(* Model of the calmdown task subsystem: the marker parser and toggle,    *)
(* the rollover date filter, the rollover orchestrator and the scan cache *)
(* of TaskScanner.  Lines of text are sequences of one-character strings, *)
(* documents are sequences of lines.                                      *)
(***************************************************************************)
EXTENDS Integers, Sequences, FiniteSets, TLC

VARIABLES
    \* ---- toggleTaskState: the active editor line and the clock
    tLine, tOrig, tNow, tDays,
    \* ---- rollover date filters: the open tasks, the clock and the selection
    fTasks, fToday, fSelected, fWhich, fLog,
    \* ---- rollTasksToToday: the step of the run, the files on disk, the open
    \* documents, the active editor, the selection and the notifications shown
    rPc, rToday, rEnum, rDisk, rDoc, rDoc0, rActive, rPast, rByFile, rIdx, rMsgs,
    rInserted, rFailed, rRoot, rRuns,
    \* ---- TaskScanner: the clock, the configured root and the files (the
    \* environment); cache, scanInProgress and journalFolderPath (the fields);
    \* every getOpenTasks call's position, locals and result; what the properties
    \* need to remember of the past
    sNow, sRoot, sFs, sCache, scanInProgress, journalFolderPath, sPc, sLoc, sRes,
    sPending, sMust, sOk, sDec, sHist, sBudget,
    \* ---- the marker parser applied to an emitted marker line: the fields, the
    \* line emitted from them and the result of parseTask
    pPc, pFields, pLine, pOut,
    \* ---- findInsertPositionInNote applied to a document: the document and
    \* the position returned
    iDoc, iPos,
    \* ---- the batch loop of a reconciliation pass: the step, the number of
    \* files enumerated, the loop index, how often each file was scanned, the
    \* scanInProgress flag, the batches and pauses so far, how the pass ended
    bPc, bFiles, bI, bScans, bFlag, bLog, bResult

toggleVars == <<tLine, tOrig, tNow, tDays>>
filterVars == <<fTasks, fToday, fSelected, fWhich, fLog>>
rollVars == <<rPc, rToday, rEnum, rDisk, rDoc, rDoc0, rActive, rPast, rByFile, rIdx, rMsgs,
              rInserted, rFailed, rRoot, rRuns>>
scanVars == <<sNow, sRoot, sFs, sCache, scanInProgress, journalFolderPath, sPc, sLoc, sRes,
              sPending, sMust, sOk, sDec, sHist, sBudget>>
parseVars == <<pPc, pFields, pLine, pOut>>
pointVars == <<iDoc, iPos>>
batchVars == <<bPc, bFiles, bI, bScans, bFlag, bLog, bResult>>
vars == <<toggleVars, filterVars, rollVars, scanVars, parseVars, pointVars, batchVars>>

(***************************************************************************)
(* Text helpers (JavaScript string operations used by the source)         *)
(***************************************************************************)
Digits == <<"0", "1", "2", "3", "4", "5", "6", "7", "8", "9">>

IsDigit(c) == \E i \in 1..10 : Digits[i] = c

DigitVal(c) == (CHOOSE i \in 1..10 : Digits[i] = c) - 1

Min(a, b) == IF a < b THEN a ELSE b

Max(a, b) == IF a > b THEN a ELSE b

\* String.prototype.substring(a, b): zero-based, end exclusive, clamped
substring(s, a, b) == SubSeq(s, Min(a, Len(s)) + 1, Min(b, Len(s)))

\* Number.prototype.toString() of a non-negative integer
RECURSIVE NumToStr(_)
NumToStr(n) == IF n < 10 THEN <<Digits[n + 1]>>
               ELSE NumToStr(n \div 10) \o <<Digits[(n % 10) + 1]>>

\* String.prototype.padStart(2, '0')
padStart2(s) == IF Len(s) < 2 THEN <<"0">> \o s ELSE s

\* parseInt of a run of decimal digits
RECURSIVE parseInt(_)
parseInt(s) == IF Len(s) = 0 THEN 0
               ELSE 10 * parseInt(SubSeq(s, 1, Len(s) - 1)) + DigitVal(s[Len(s)])

IsSpace(c) == c \in {" ", "\t"}

\* String.prototype.trim()
RECURSIVE trimStart(_)
trimStart(s) == IF Len(s) > 0 /\ IsSpace(s[1]) THEN trimStart(Tail(s)) ELSE s

RECURSIVE trimEnd(_)
trimEnd(s) == IF Len(s) > 0 /\ IsSpace(s[Len(s)])
              THEN trimEnd(SubSeq(s, 1, Len(s) - 1)) ELSE s

\* the text as it is, white space kept
keepSpaces(s) == s

trim(s) == trimEnd(trimStart(s))

\* String.prototype.startsWith / literal text at a one-based index
HasLit(s, i, lit) == /\ i >= 1
                     /\ i + Len(lit) - 1 <= Len(s)
                     /\ SubSeq(s, i, i + Len(lit) - 1) = lit

startsWith(s, lit) == HasLit(s, 1, lit)

(***************************************************************************)
(* The marker grammar: -=STATE digits digits digits=-text                  *)
(***************************************************************************)
KwTODO == <<"T", "O", "D", "O">>
KwCOMPLETE == <<"C", "O", "M", "P", "L", "E", "T", "E">>
KwROLL == <<"R", "O", "L", "L">>

\* length of the maximal run of digits of s starting at index i (greedy \d+)
RECURSIVE DigitRun(_, _)
DigitRun(s, i) == IF i <= Len(s) /\ IsDigit(s[i]) THEN 1 + DigitRun(s, i + 1) ELSE 0

NoMatch == [found |-> FALSE, g1 |-> <<>>, g2 |-> <<>>, g3 |-> <<>>, g4 |-> <<>>]

\* the literal text the marker expression opens with
MarkerOpen(kw) == <<"-", "=">> \o kw \o <<" ">>

\* the groups of a match whose digit runs start at a, b + 1 and c + 1 and
\* whose closing =- is at e
MatchGroups(s, a, b, c, e) ==
    IF /\ b > a /\ HasLit(s, b, <<" ">>)
       /\ c > b + 1 /\ HasLit(s, c, <<" ">>)
       /\ e > c + 1 /\ HasLit(s, e, <<"=", "-">>)
    THEN [found |-> TRUE,
          g1 |-> SubSeq(s, a, b - 1),
          g2 |-> SubSeq(s, b + 1, c - 1),
          g3 |-> SubSeq(s, c + 1, e - 1),
          g4 |-> SubSeq(s, e + 2, Len(s))]
    ELSE NoMatch

MatchThird(s, a, b, c) == MatchGroups(s, a, b, c, c + 1 + DigitRun(s, c + 1))

MatchSecond(s, a, b) == MatchThird(s, a, b, b + 1 + DigitRun(s, b + 1))

MatchFirst(s, a) == MatchSecond(s, a, a + DigitRun(s, a))

\* the marker expression (literal -=KW, three greedy digit groups, =-, rest)
\* tried at index i
MatchAt(s, i, kw) ==
    IF HasLit(s, i, MarkerOpen(kw)) THEN MatchFirst(s, i + Len(MarkerOpen(kw)))
    ELSE NoMatch

\* the least index from i on where the marker expression matches, 0 if none
MatchIndex(s, i, kw) ==
    IF \E j \in i..Len(s) : MatchAt(s, j, kw).found
    THEN CHOOSE j \in i..Len(s) :
            MatchAt(s, j, kw).found /\ \A k \in i..(j - 1) : ~MatchAt(s, k, kw).found
    ELSE 0

\* String.prototype.match with an unanchored expression: the leftmost match
RegexMatch(s, kw) == MatchAt(s, MatchIndex(s, 1, kw), kw)

\* the marker text the source emits with a template literal
MarkerPrefix(kw, p, d, date) ==
    <<"-", "=">> \o kw \o <<" ">> \o p \o <<" ">> \o d \o <<" ">> \o date \o <<"=", "-">>

(***************************************************************************)
(* Dates                                                                   *)
(***************************************************************************)
IsLeap(y) == (y % 4 = 0 /\ y % 100 # 0) \/ y % 400 = 0

DaysInMonth(y, m) == IF m = 2 THEN (IF IsLeap(y) THEN 29 ELSE 28)
                     ELSE IF m \in {4, 6, 9, 11} THEN 30 ELSE 31

\* days from 0001-01-01 to the first day of year y
DaysBeforeYear(y) == 365 * (y - 1) + ((y - 1) \div 4) - ((y - 1) \div 100) + ((y - 1) \div 400)

RECURSIVE DaysBeforeMonth(_, _)
DaysBeforeMonth(y, m) == IF m <= 1 THEN 0
                         ELSE DaysBeforeMonth(y, m - 1) + DaysInMonth(y, m - 1)

\* new Date(year, monthIndex, day) as a day number; JavaScript normalises a
\* month index outside 0..11 and a day outside the month
JsDate(year, monthIndex, day) ==
    LET y == year + (monthIndex \div 12)
        m == (monthIndex % 12) + 1
    IN  DaysBeforeYear(y) + DaysBeforeMonth(y, m) + (day - 1)

\* the calendar date of a day number
RECURSIVE YearOf(_, _)
YearOf(n, y) == IF n >= DaysBeforeYear(y + 1) THEN YearOf(n, y + 1) ELSE y

RECURSIVE MonthOf(_, _, _)
MonthOf(n, y, m) == IF m < 12 /\ n >= DaysBeforeYear(y) + DaysBeforeMonth(y, m + 1)
                    THEN MonthOf(n, y, m + 1) ELSE m

\* Date.prototype.getFullYear(); the search starts at a year not after the date
getFullYear(n) == YearOf(n, (n \div 366) + 1)

\* Date.prototype.getMonth() + 1
getMonth1(n) == MonthOf(n, getFullYear(n), 1)

getDate(n) == n - (DaysBeforeYear(getFullYear(n)) + DaysBeforeMonth(getFullYear(n), getMonth1(n))) + 1

formatDateForTask(date) ==
    LET yy == substring(NumToStr(getFullYear(date)), 2, 4)
        mm == padStart2(NumToStr(getMonth1(date)))
        dd == padStart2(NumToStr(getDate(date)))
    IN  yy \o mm \o dd

formatDateYYYYMMDD(date) ==
    LET yyyy == NumToStr(getFullYear(date))
        mm == padStart2(NumToStr(getMonth1(date)))
        dd == padStart2(NumToStr(getDate(date)))
    IN  yyyy \o <<"-">> \o mm \o <<"-">> \o dd

(***************************************************************************)
(* toggleTaskState: the new text of the line under the cursor             *)
(***************************************************************************)
\* a toggle that completes a TODO line under the date the line carries
ToggleKeepingDate(lineText, todoMatch, completeMatch, dateStr) ==
    IF todoMatch.found
    THEN MarkerPrefix(KwCOMPLETE, todoMatch.g1, todoMatch.g2, todoMatch.g3) \o todoMatch.g4
    ELSE IF completeMatch.found
    THEN MarkerPrefix(KwTODO, completeMatch.g1, completeMatch.g2, completeMatch.g3)
             \o completeMatch.g4
    ELSE IF trim(lineText) = <<>>
    THEN MarkerPrefix(KwTODO, <<"1">>, <<"1">>, dateStr)
    ELSE MarkerPrefix(KwTODO, <<"1">>, <<"1">>, dateStr) \o <<" ">> \o lineText

ToggleWith(lineText, todoMatch, completeMatch, dateStr) ==
    IF todoMatch.found
    THEN MarkerPrefix(KwCOMPLETE, todoMatch.g1, todoMatch.g2, dateStr) \o todoMatch.g4
    ELSE IF completeMatch.found
    THEN MarkerPrefix(KwTODO, completeMatch.g1, completeMatch.g2, completeMatch.g3)
             \o completeMatch.g4
    ELSE IF trim(lineText) = <<>>
    THEN MarkerPrefix(KwTODO, <<"1">>, <<"1">>, dateStr)
    ELSE MarkerPrefix(KwTODO, <<"1">>, <<"1">>, dateStr) \o <<" ">> \o lineText

ToggleLine(lineText, today) ==
    ToggleWith(lineText, RegexMatch(lineText, KwTODO), RegexMatch(lineText, KwCOMPLETE),
               formatDateForTask(today))

(***************************************************************************)
(* parseTask (the dueDate version of the task model)                      *)
(***************************************************************************)
Null == [null |-> TRUE]

\* the task object built from the groups of a match
TaskOf(m, status, filePath, lineNumber) ==
    [text |-> trim(m.g4), priority |-> parseInt(m.g1), difficulty |-> parseInt(m.g2),
     dueDate |-> m.g3, filePath |-> filePath, line |-> lineNumber, status |-> status]

ParseWith(todo, complete, filePath, lineNumber) ==
    IF todo.found THEN TaskOf(todo, "TODO", filePath, lineNumber)
    ELSE IF complete.found THEN TaskOf(complete, "COMPLETE", filePath, lineNumber)
    ELSE Null

\* a parser that also accepts the ROLL keyword
parseTaskWithRoll(line, filePath, lineNumber) ==
    IF RegexMatch(line, KwROLL).found
    THEN TaskOf(RegexMatch(line, KwROLL), "ROLLED", filePath, lineNumber)
    ELSE ParseWith(RegexMatch(line, KwTODO), RegexMatch(line, KwCOMPLETE), filePath,
                   lineNumber)

parseTask(line, filePath, lineNumber) ==
    ParseWith(RegexMatch(line, KwTODO), RegexMatch(line, KwCOMPLETE), filePath, lineNumber)

(***************************************************************************)
(* The rollover date filters                                              *)
(***************************************************************************)
\* parseTaskDate throws for a date string that is not six characters long
parseTaskDateThrows(dateStr) == Len(dateStr) # 6

CenturyBase == 2000

\* parseTaskDate with the two-digit year placed in the century before
parseTaskDateLastCentury(dateStr) ==
    JsDate(CenturyBase - 100 + parseInt(substring(dateStr, 0, 2)),
           parseInt(substring(dateStr, 2, 4)) - 1,
           parseInt(substring(dateStr, 4, 6)))

parseTaskDate(dateStr) ==
    LET yy == parseInt(substring(dateStr, 0, 2))
        mm == parseInt(substring(dateStr, 2, 4)) - 1
        dd == parseInt(substring(dateStr, 4, 6))
        year == CenturyBase + yy
    IN  JsDate(year, mm, dd)

\* taskRollover.filterPastTasks: due today or earlier, by the task's own date
IsPastDue(task, today) ==
    IF parseTaskDateThrows(task.dueDate) THEN FALSE
    ELSE parseTaskDate(task.dueDate) <= today

filterPastTasks(allTasks, today) ==
    LET keep(task) == IsPastDue(task, today)
    IN  SelectSeq(allTasks, keep)

\* the catch of filterPastTasks (lines 101-104): what the filter writes to the
\* console, one error line for each task whose date made parseTaskDate throw
dueDateErrors(allTasks) ==
    LET thrown == SelectSeq(allTasks, LAMBDA task : parseTaskDateThrows(task.dueDate))
    IN  [k \in 1..Len(thrown) |->
            [kind |-> "console.error", what |-> "Error parsing due date",
             arg |-> thrown[k].dueDate]]

\* code units of the characters the model uses, in ascending order
Ascii == <<"\t", " ", "#", "-", ".", "/",
           "0", "1", "2", "3", "4", "5", "6", "7", "8", "9", "=",
           "A", "B", "C", "D", "E", "F", "G", "H", "I", "J", "K", "L", "M",
           "N", "O", "P", "Q", "R", "S", "T", "U", "V", "W", "X", "Y", "Z",
           "a", "b", "c", "d", "e", "f", "g", "h", "i", "j", "k", "l", "m",
           "n", "o", "p", "q", "r", "s", "t", "u", "v", "w", "x", "y", "z", "~">>

CharCode(c) == CHOOSE i \in 1..Len(Ascii) : Ascii[i] = c

\* the relational operator < on two strings
RECURSIVE StrLess(_, _)
StrLess(a, b) ==
    IF Len(b) = 0 THEN FALSE
    ELSE IF Len(a) = 0 THEN TRUE
    ELSE IF a[1] # b[1] THEN CharCode(a[1]) < CharCode(b[1])
    ELSE StrLess(Tail(a), Tail(b))

\* String.prototype.split(sep): the pieces between occurrences of one character
RECURSIVE split(_, _)
split(s, sep) ==
    IF \E i \in 1..Len(s) : s[i] = sep
    THEN LET i == CHOOSE j \in 1..Len(s) :
                    s[j] = sep /\ \A k \in 1..(j - 1) : s[k] # sep
         IN  <<SubSeq(s, 1, i - 1)>> \o split(SubSeq(s, i + 1, Len(s)), sep)
    ELSE <<s>>

\* taskManager.rollTasksToToday: the note's file name against today's date string
IsPastNote(task, todayDateStr) ==
    LET parts == split(task.filePath, "/")
        filename == parts[Len(parts)]
        filenameDate == split(filename, ".")[1]
    IN  StrLess(filenameDate, todayDateStr)

managerFilter(allTasks, todayDateStr) ==
    LET keep(task) == IsPastNote(task, todayDateStr)
    IN  SelectSeq(allTasks, keep)

(***************************************************************************)
(* Inputs                                                                  *)
(***************************************************************************)
D240101 == <<"2", "4", "0", "1", "0", "1">>
D240115 == <<"2", "4", "0", "1", "1", "5">>
D240116 == <<"2", "4", "0", "1", "1", "6">>
D991231 == <<"9", "9", "1", "2", "3", "1">>
D300101 == <<"3", "0", "0", "1", "0", "1">>
D2401 == <<"2", "4", "0", "1">>

TxtWriteSpec == <<" ", "w", "r", "i", "t", "e", " ", "s", "p", "e", "c">>
TxtA == <<" ", "a">>

Day20240101 == JsDate(2024, 0, 1)
Day20240110 == JsDate(2024, 0, 10)
Day20240115 == JsDate(2024, 0, 15)
Day20240116 == JsDate(2024, 0, 16)
Day20240120 == JsDate(2024, 0, 20)

\* a note's path in the journal folder, named after its date
NotePath(day) == <<"/", "J", "/">> \o formatDateYYYYMMDD(day) \o <<".", "m", "d">>

MarkerLine(kw, p, d, date, text) == MarkerPrefix(kw, p, d, date) \o text

(***************************************************************************)
(* Specification of the toggle command: one editor line, toggled on days  *)
(* of a clock that only moves forward                                     *)
(***************************************************************************)
MaxToggles == 3
MaxDayAdvance == 2

ToggleLines ==
    { MarkerLine(kw, p, <<"3">>, date, text) :
        kw \in {KwTODO, KwCOMPLETE, KwROLL}, p \in {<<"2">>, <<"1", "0">>},
        date \in {D240101, D240116}, text \in {<<>>, TxtWriteSpec, TxtA} }
    \cup { <<"-", " ">> \o MarkerLine(KwTODO, <<"2">>, <<"3">>, D240101, TxtA) }
    \cup { <<>>, <<" ">>, <<"n", "o", "t", "e">> }

IdleToggle == /\ tLine = <<>> /\ tOrig = <<>> /\ tNow = 0 /\ tDays = <<>>

IdleRoll ==
    /\ rPc = "Idle" /\ rToday = 0 /\ rEnum = <<>> /\ rDisk = <<>> /\ rDoc = <<>>
    /\ rDoc0 = <<>> /\ rActive = <<>> /\ rPast = <<>> /\ rByFile = <<>> /\ rIdx = 0
    /\ rMsgs = <<>> /\ rInserted = FALSE /\ rFailed = {} /\ rRoot = "" /\ rRuns = <<>>

IdleScan ==
    /\ sNow = 0 /\ sRoot = "" /\ sFs = <<>> /\ sCache = <<>> /\ scanInProgress = FALSE
    /\ journalFolderPath = <<>> /\ sPc = <<>> /\ sLoc = <<>> /\ sRes = <<>>
    /\ sPending = {} /\ sMust = <<>> /\ sOk = <<>> /\ sDec = <<>> /\ sHist = <<>>
    /\ sBudget = <<>>

IdleFilter == /\ fTasks = <<>> /\ fToday = 0 /\ fSelected = <<>> /\ fWhich = "none"
              /\ fLog = <<>>

IdleParse == /\ pPc = "none" /\ pFields = <<>> /\ pLine = <<>> /\ pOut = <<>>

IdlePoint == /\ iDoc = <<>> /\ iPos = <<>>

IdleBatch == /\ bPc = "none" /\ bFiles = 0 /\ bI = 0 /\ bScans = <<>> /\ bFlag = FALSE
             /\ bLog = <<>> /\ bResult = "none"

InitToggle ==
    /\ tOrig \in ToggleLines
    /\ tLine = tOrig
    /\ tNow = Day20240116
    /\ tDays = <<>>
    /\ IdleFilter
    /\ IdleRoll
    /\ IdleScan
    /\ IdleParse
    /\ IdlePoint
    /\ IdleBatch

\* the clock: a calendar day passes
AdvanceDay ==
    /\ tNow < Day20240116 + MaxDayAdvance
    /\ tNow' = tNow + 1
    /\ UNCHANGED <<tLine, tOrig, tDays, filterVars, rollVars, scanVars, parseVars, pointVars, batchVars>>

\* toggleTaskState on the line under the cursor of a markdown editor; tDays
\* records the day of every toggle applied so far
toggleTaskState ==
    /\ Len(tDays) < MaxToggles
    /\ tLine' = ToggleLine(tLine, tNow)
    /\ tDays' = Append(tDays, tNow)
    /\ UNCHANGED <<tOrig, tNow, filterVars, rollVars, scanVars, parseVars, pointVars, batchVars>>

NextToggle == AdvanceDay \/ toggleTaskState

SpecToggle == InitToggle /\ [][NextToggle]_vars

(***************************************************************************)
(* Specification of the rollover selection: the two filters the source    *)
(* has for rollTasksToToday, applied to a list of open tasks              *)
(***************************************************************************)
FilterDueDates == {D240101, D240115, D240116, D991231, D300101, D2401}
FilterNoteDays == {Day20240110, Day20240115, Day20240120}
FilterTodays == {Day20240115, Day20240116}

FilterPool ==
    { parseTask(MarkerLine(KwTODO, <<"1">>, <<"1">>, date, TxtA), NotePath(day), 0) :
        date \in FilterDueDates, day \in FilterNoteDays }

\* the three open tasks of the documented example, in one past note
ExampleTasks ==
    << parseTask(MarkerLine(KwTODO, <<"1">>, <<"1">>, D240101, TxtA), NotePath(Day20240110), 0),
       parseTask(MarkerLine(KwTODO, <<"1">>, <<"1">>, D991231, TxtA), NotePath(Day20240110), 1),
       parseTask(MarkerLine(KwTODO, <<"1">>, <<"1">>, D300101, TxtA), NotePath(Day20240110), 2) >>

FilterInputs ==
    { <<t>> : t \in FilterPool } \cup { <<t, u>> : t \in FilterPool, u \in FilterPool }
    \cup { ExampleTasks }

InitFilter ==
    /\ fTasks \in FilterInputs
    /\ fToday \in FilterTodays
    /\ fSelected = <<>>
    /\ fWhich = "none"
    /\ fLog = <<>>
    /\ IdleToggle
    /\ IdleRoll
    /\ IdleScan
    /\ IdleParse
    /\ IdlePoint
    /\ IdleBatch

\* taskRollover.rollTasksToToday: pastTasks = filterPastTasks(allOpenTasks, ...)
RolloverSelect ==
    /\ fWhich = "none"
    /\ fSelected' = filterPastTasks(fTasks, fToday)
    /\ fWhich' = "taskRollover"
    /\ fLog' = dueDateErrors(fTasks)
    /\ UNCHANGED <<fTasks, fToday, toggleVars, rollVars, scanVars, parseVars, pointVars, batchVars>>

\* taskManager.rollTasksToToday (the function the extension registers as the
\* calmdown.rollTasks command): pastTasks = allOpenTasks.filter(by file name)
ManagerSelect ==
    /\ fWhich = "none"
    /\ fSelected' = managerFilter(fTasks, formatDateYYYYMMDD(fToday))
    /\ fWhich' = "taskManager"
    /\ UNCHANGED <<fTasks, fToday, fLog, toggleVars, rollVars, scanVars, parseVars, pointVars, batchVars>>

NextFilter == RolloverSelect \/ ManagerSelect

SpecFilter == InitFilter /\ [][NextFilter]_vars

(***************************************************************************)
(* Text documents and editor edits                                        *)
(***************************************************************************)
\* a document is its sequence of lines; a missing file has no line at all
Missing == <<>>

lineCount(doc) == Len(doc)

\* the text of a document: its lines joined by line feeds
RECURSIVE TextOf(_)
TextOf(doc) == IF Len(doc) = 0 THEN <<>>
               ELSE IF Len(doc) = 1 THEN doc[1]
               ELSE doc[1] \o <<"\n">> \o TextOf(Tail(doc))

LinesOf(text) == split(text, "\n")

\* the offset of a position; a position outside the document is clamped to
\* the nearest valid one when the edit is applied
RECURSIVE OffsetOfLine(_, _)
OffsetOfLine(doc, line) == IF line = 0 THEN 0
                           ELSE Len(doc[1]) + 1 + OffsetOfLine(Tail(doc), line - 1)

OffsetAt(doc, pos) ==
    IF pos.line >= lineCount(doc) THEN Len(TextOf(doc))
    ELSE OffsetOfLine(doc, pos.line) + Min(pos.character, Len(doc[pos.line + 1]))

\* the texts inserted at one offset, in the order the edit builder got them
RECURSIVE InsertedAt(_, _, _)
InsertedAt(doc, ops, o) ==
    IF Len(ops) = 0 THEN <<>>
    ELSE (IF OffsetAt(doc, ops[1].pos) = o THEN ops[1].text ELSE <<>>)
             \o InsertedAt(doc, Tail(ops), o)

\* the new text for the offsets lo..hi of the old text: at each offset the
\* texts inserted there, then the character of the old text (the range is
\* halved, so the evaluation stays shallow for a long text)
RECURSIVE BuildText(_, _, _, _, _)
BuildText(doc, text, ops, lo, hi) ==
    IF lo > hi THEN <<>>
    ELSE IF lo = hi
    THEN InsertedAt(doc, ops, lo) \o (IF lo < Len(text) THEN <<text[lo + 1]>> ELSE <<>>)
    ELSE BuildText(doc, text, ops, lo, (lo + hi) \div 2)
             \o BuildText(doc, text, ops, ((lo + hi) \div 2) + 1, hi)

\* TextEditor.edit with insert operations: every position refers to the
\* document as it was before the edit
ApplyInserts(doc, ops) ==
    LinesOf(BuildText(doc, TextOf(doc), ops, 0, Len(TextOf(doc))))

\* String.prototype.replace(/-=TODO /, '-=ROLL '): the first occurrence
ReplaceFirst(s, lit, rep) ==
    IF \E i \in 1..Len(s) : HasLit(s, i, lit)
    THEN LET i == CHOOSE j \in 1..Len(s) :
                    HasLit(s, j, lit) /\ \A k \in 1..(j - 1) : ~HasLit(s, k, lit)
         IN  SubSeq(s, 1, i - 1) \o rep \o SubSeq(s, i + Len(lit), Len(s))
    ELSE s

(***************************************************************************)
(* findInsertPositionInNote                                               *)
(***************************************************************************)
HRolledOver == <<"#", "#", " ", "R", "o", "l", "l", "e", "d", " ", "O", "v", "e", "r",
                 " ", "T", "a", "s", "k", "s">>
HRollovered == <<"#", "#", " ", "R", "o", "l", "l", "o", "v", "e", "r", "e", "d",
                 " ", "T", "a", "s", "k", "s">>

IsRolledHeading(line) == startsWith(line, HRolledOver) \/ startsWith(line, HRollovered)

Position(line, character) == [line |-> line, character |-> character]

\* the tests with a title taken for the next section
LineIsTitleForSection(l, kind) ==
    IF kind = "rolled" THEN IsRolledHeading(l)
    ELSE IF kind = "blank" THEN trim(l) = <<>>
    ELSE startsWith(l, <<"#", " ">>)

\* the tests findInsertPositionInNote makes on a line
LineIs(l, kind) ==
    IF kind = "rolled" THEN IsRolledHeading(l)
    ELSE IF kind = "section" THEN startsWith(l, <<"#", "#", " ">>)
    ELSE IF kind = "top" THEN startsWith(l, <<"#", " ">>)
    ELSE trim(l) = <<>>

\* the first line of the given kind from line lo on (zero-based), or -1
FirstLine(doc, lo, kind) ==
    IF \E i \in lo..(lineCount(doc) - 1) : LineIs(doc[i + 1], kind)
    THEN CHOOSE i \in lo..(lineCount(doc) - 1) :
            LineIs(doc[i + 1], kind) /\ \A k \in lo..(i - 1) : ~LineIs(doc[k + 1], kind)
    ELSE -1

\* the position after the loops over the rolled-over heading (i), the next
\* section (j), the first top heading (h) and the first blank line after it (b)
PositionFrom(document, i, j, h, b) ==
    IF i >= 0
    THEN (IF j >= 0 THEN Position(j, 0) ELSE Position(lineCount(document), 0))
    ELSE IF h >= 0
    THEN (IF b >= 0 THEN Position(b, 0) ELSE Position(h + 1, 0))
    ELSE Position(lineCount(document), 0)

findInsertPositionInNote(document) ==
    PositionFrom(document,
                 FirstLine(document, 0, "rolled"),
                 FirstLine(document, FirstLine(document, 0, "rolled") + 1, "section"),
                 FirstLine(document, 0, "top"),
                 FirstLine(document, FirstLine(document, 0, "top") + 1, "blank"))

(***************************************************************************)
(* The rollover orchestrator (taskRollover.ts)                            *)
(***************************************************************************)
\* scanFileForTasks on a fresh scanner: every line of the document is parsed
ParseLines(doc, filePath, i) ==
    SelectSeq([k \in 1..(lineCount(doc) - i) |-> parseTask(doc[i + k], filePath, i + k - 1)],
              LAMBDA task : task # Null)

\* a scanner that outlives a run: from the second run on it serves the tasks
\* the run before had from it
RECURSIVE ScanOnce(_, _)
ScanOnce(files, docs) ==
    IF rRuns # <<>> THEN rRuns[1].past
    ELSE IF Len(files) = 0 THEN <<>>
    ELSE ParseLines(docs[files[1]], files[1], 0) \o ScanOnce(Tail(files), docs)

\* a reconciliation pass of a new TaskScanner over the enumerated files
RECURSIVE ScanAll(_, _)
ScanAll(files, docs) ==
    IF Len(files) = 0 THEN <<>>
    ELSE ParseLines(docs[files[1]], files[1], 0) \o ScanAll(Tail(files), docs)

\* a filter that lets every task through
TasksOfAnyStatus(tasks) == tasks

OpenTasksOf(tasks) ==
    LET isTodo(task) == task.status = "TODO"
    IN  SelectSeq(tasks, isTodo)

\* groupTasksByFile: a Map keeps its keys in insertion order
RECURSIVE FileKeys(_, _)
FileKeys(tasks, seen) ==
    IF Len(tasks) = 0 THEN <<>>
    ELSE IF tasks[1].filePath \in seen THEN FileKeys(Tail(tasks), seen)
    ELSE <<tasks[1].filePath>> \o FileKeys(Tail(tasks), seen \cup {tasks[1].filePath})

groupTasksByFile(tasks) ==
    LET keys == FileKeys(tasks, {})
    IN  [k \in 1..Len(keys) |->
            LET inFile(task) == task.filePath = keys[k]
            IN  [filePath |-> keys[k], tasks |-> SelectSeq(tasks, inFile)]]

\* the line addTasksToTodaysNote writes for a task
TaskLineText(task) ==
    MarkerPrefix(KwTODO, NumToStr(task.priority), NumToStr(task.difficulty), task.dueDate)
        \o <<" ">> \o task.text \o <<"\n">>

HeadingText == <<"\n">> \o HRollovered \o <<"\n", "\n">>

RECURSIVE TaskInserts(_, _)
TaskInserts(tasks, line) ==
    IF Len(tasks) = 0 THEN <<>>
    ELSE <<[pos |-> Position(line, 0), text |-> TaskLineText(tasks[1])]>>
             \o TaskInserts(Tail(tasks), line + 1)

\* the operations addTasksToTodaysNote hands to the edit builder
InsertOps(document, tasks) ==
    LET insertPosition == findInsertPositionInNote(document)
        sectionExists == \E i \in 1..lineCount(document) : IsRolledHeading(document[i])
    IN  IF Len(tasks) > 0 /\ ~sectionExists
        THEN <<[pos |-> insertPosition, text |-> HeadingText]>>
                 \o TaskInserts(tasks, insertPosition.line + 3)
        ELSE TaskInserts(tasks, insertPosition.line)

addTasksToTodaysNote(document, tasks) == ApplyInserts(document, InsertOps(document, tasks))

\* the tasks left in the order of discovery
KeepOrder(tasks) == tasks

\* Array.prototype.sort((a, b) => b.line - a.line): descending line numbers
RECURSIVE SortDesc(_)
SortDesc(tasks) ==
    IF Len(tasks) = 0 THEN <<>>
    ELSE LET m == CHOOSE i \in 1..Len(tasks) :
                    /\ \A k \in 1..Len(tasks) : tasks[k].line <= tasks[i].line
                    /\ \A k \in 1..(i - 1) : tasks[k].line < tasks[i].line
             rest == [k \in 1..(Len(tasks) - 1) |-> IF k < m THEN tasks[k] ELSE tasks[k + 1]]
         IN  <<tasks[m]>> \o SortDesc(rest)

TodoToken == <<"-", "=">> \o KwTODO \o <<" ">>
RollToken == <<"-", "=">> \o KwROLL \o <<" ">>

\* a rewrite that puts two lines in the place of one, line after line in the
\* document as it is by then
RECURSIVE MarkLinesSplitting(_, _, _)
MarkLinesSplitting(sourceDoc, doc, tasks) ==
    IF Len(tasks) = 0 THEN doc
    ELSE MarkLinesSplitting(
            sourceDoc,
            IF tasks[1].line >= 0 /\ tasks[1].line < lineCount(doc)
            THEN SubSeq(doc, 1, tasks[1].line)
                    \o <<ReplaceFirst(doc[tasks[1].line + 1], TodoToken, RollToken), <<>>>>
                    \o SubSeq(doc, tasks[1].line + 2, Len(doc))
            ELSE doc,
            Tail(tasks))

\* the edit of markOriginalTasksAsMoved on one source document: every
\* replacement reads and replaces a line of the document before the edit
RECURSIVE MarkLines(_, _, _)
MarkLines(sourceDoc, doc, tasks) ==
    IF Len(tasks) = 0 THEN doc
    ELSE LET task == tasks[1]
             next == IF task.line >= 0 /\ task.line < lineCount(sourceDoc)
                     THEN [doc EXCEPT ![task.line + 1] =
                              ReplaceFirst(sourceDoc[task.line + 1], TodoToken, RollToken)]
                     ELSE doc
         IN  MarkLines(sourceDoc, next, Tail(tasks))

markFileAsMoved(sourceDoc, tasks) == MarkLines(sourceDoc, sourceDoc, SortDesc(tasks))

(***************************************************************************)
(* Specification of one rollTasksToToday run over a journal of two source *)
(* notes and today's note                                                 *)
(***************************************************************************)
Day20240105 == JsDate(2024, 0, 5)

MaxRuns == 2

N1 == NotePath(Day20240110)
N2 == NotePath(Day20240105)
TodayPath == NotePath(Day20240115)
RollFiles == {N1, N2, TodayPath}

LNote == <<"#", " ", "N", "o", "t", "e">>
LTasks == <<"#", "#", " ", "T", "a", "s", "k", "s">>
LLog == <<"#", "#", " ", "L", "o", "g">>
TxtB == <<" ", "b">>
TxtC == <<" ", "c">>

\* the bodies a source note starts with: one overdue task; an overdue task, a
\* task due in the future and a second overdue task; only a completed task
SourceBodies(p, text) ==
    { << LNote, MarkerLine(KwTODO, p, <<"3">>, D240101, text) >>,
      << MarkerLine(KwTODO, p, <<"1">>, D240101, text), <<"x">>,
         MarkerLine(KwTODO, p, <<"1">>, D300101, TxtC),
         MarkerLine(KwTODO, p, <<"2">>, D240115, text) >>,
      << MarkerLine(KwCOMPLETE, p, <<"3">>, D240101, text) >> }

\* the default template createNote falls back to, for today's date
DefaultTemplate(day) ==
    << <<"#", " ", "N", "o", "t", "e", "s", " ", "f", "o", "r", " ">> \o formatDateYYYYMMDD(day),
       <<>>, <<>> >>

\* today's note before the run: missing, or one of these bodies (the last
\* one holds a task the user wrote today, due today)
TodayBodies ==
    { Missing,
      DefaultTemplate(Day20240115),
      << LNote, <<>>, LTasks, <<>>, LLog, <<>> >>,
      << LNote, <<>>, HRollovered, <<>>, LLog, <<>> >>,
      << <<"x">> >>,
      << LNote, <<>>, HRollovered, LLog, <<"x">>,
         MarkerLine(KwTODO, <<"1">>, <<"1">>, D240115, TxtC) >> }

\* getJournalFolderUri: the journal folder is there (or can be created), no
\* workspace folder is open, or the folder can neither be read nor created
RootStates == {"available", "noWorkspace", "noJournalFolder"}

InitRoll ==
    /\ rPc = "Init"
    /\ rToday = 0
    /\ rEnum \in {<<N1, N2>>, <<N2, N1>>}
    /\ \E b1 \in SourceBodies(<<"1">>, TxtA), b2 \in SourceBodies(<<"2">>, TxtB),
          bt \in TodayBodies :
            rDisk = [f \in RollFiles |-> IF f = N1 THEN b1 ELSE IF f = N2 THEN b2 ELSE bt]
    /\ rDoc = rDisk
    /\ rDoc0 = rDisk
    /\ rActive = <<>>
    /\ rPast = <<>>
    /\ rByFile = <<>>
    /\ rIdx = 0
    /\ rMsgs = <<>>
    /\ rInserted = FALSE
    /\ rFailed = {}
    /\ rRoot \in RootStates
    /\ rRuns = <<>>
    /\ IdleToggle
    /\ IdleFilter
    /\ IdleScan
    /\ IdleParse
    /\ IdlePoint
    /\ IdleBatch

\* the files findFiles enumerates: the source notes, then today's note if it exists
Enumerated == IF rDisk[TodayPath] = Missing THEN rEnum ELSE rEnum \o <<TodayPath>>

\* const today = new Date()
RollStart ==
    /\ rPc = "Init"
    /\ UNCHANGED <<rRoot, rRuns>>
    /\ rToday' = Day20240115
    /\ rPc' = "Discover"
    /\ UNCHANGED <<rEnum, rDisk, rDoc, rDoc0, rActive, rPast, rByFile, rIdx, rMsgs,
                   rInserted, rFailed, toggleVars, filterVars, scanVars, parseVars, pointVars, batchVars>>

\* a run that goes on to today's note whatever it selected
RollDiscoverGoesOn ==
    /\ rPc = "Discover"
    /\ rPast' = filterPastTasks(OpenTasksOf(ScanAll(IF rRoot = "available" THEN Enumerated
                                                    ELSE <<>>, rDoc)), rToday)
    /\ rPc' = "CreateTarget"
    /\ UNCHANGED <<rRoot, rRuns, rMsgs, rToday, rEnum, rDisk, rDoc, rDoc0, rActive, rByFile,
                   rIdx, rInserted, rFailed, toggleVars, filterVars, scanVars, parseVars,
                   pointVars, batchVars>>

\* new TaskScanner().getOpenTasks() and filterPastTasks; findMarkdownFiles
\* returns no file when there is no journal folder path; an empty selection
\* ends the run with an information message
RollDiscover ==
    /\ rPc = "Discover"
    /\ UNCHANGED <<rRoot, rRuns>>
    /\ LET markdownFiles == IF rRoot = "available" THEN Enumerated ELSE <<>>
           allOpenTasks == OpenTasksOf(ScanAll(markdownFiles, rDoc))
           pastTasks == filterPastTasks(allOpenTasks, rToday)
       IN  /\ rPast' = pastTasks
           /\ IF Len(pastTasks) = 0
              THEN /\ rMsgs' = Append(rMsgs, [kind |-> "info", what |-> "nothing", arg |-> <<>>])
                   /\ rPc' = "Done"
              ELSE /\ rMsgs' = rMsgs
                   /\ rPc' = "CreateTarget"
    /\ UNCHANGED <<rToday, rEnum, rDisk, rDoc, rDoc0, rActive, rByFile, rIdx,
                   rInserted, rFailed, toggleVars, filterVars, scanVars, parseVars, pointVars, batchVars>>

\* createNote (a collaborator that reports its own errors and returns), then
\* openTextDocument(todayFilePath), which throws when the note does not exist,
\* and showTextDocument(todayDoc)
RollCreateTarget ==
    /\ rPc = "CreateTarget"
    /\ UNCHANGED <<rRoot, rRuns>>
    /\ \E created \in BOOLEAN :
        LET disk == IF rDisk[TodayPath] = Missing /\ created
                    THEN [rDisk EXCEPT ![TodayPath] = DefaultTemplate(rToday)]
                    ELSE rDisk
        IN  /\ rDisk' = disk
            /\ IF disk[TodayPath] = Missing
               THEN /\ rMsgs' = Append(rMsgs, [kind |-> "error", what |-> "failed", arg |-> <<>>])
                    /\ rPc' = "Failed"
                    /\ UNCHANGED <<rDoc, rActive>>
               ELSE /\ rDoc' = [rDoc EXCEPT ![TodayPath] =
                                   IF rDisk[TodayPath] = Missing THEN disk[TodayPath] ELSE @]
                    /\ rActive' = TodayPath
                    /\ rPc' = "Insert"
                    /\ rMsgs' = rMsgs
    /\ UNCHANGED <<rToday, rEnum, rDoc0, rPast, rByFile, rIdx, rInserted, rFailed,
                   toggleVars, filterVars, scanVars, parseVars, pointVars, batchVars>>

\* groupTasksByFile, then addTasksToTodaysNote: the edit resolves true when it
\* was applied and false when the editor rejects it; the result is not read
RollInsert ==
    /\ rPc = "Insert"
    /\ UNCHANGED <<rRoot, rRuns>>
    /\ rByFile' = groupTasksByFile(rPast)
    /\ rIdx' = 1
    /\ \E applied \in BOOLEAN :
        /\ rInserted' = applied
        /\ rDoc' = IF applied
                   THEN [rDoc EXCEPT ![TodayPath] = addTasksToTodaysNote(@, rPast)]
                   ELSE rDoc
    /\ rPc' = "MarkSources"
    /\ UNCHANGED <<rToday, rEnum, rDisk, rDoc0, rActive, rPast, rMsgs, rFailed,
                   toggleVars, filterVars, scanVars, parseVars, pointVars, batchVars>>

\* one iteration of the loop of markOriginalTasksAsMoved: open and show the
\* source document, replace the task lines in one edit, save the document.
\* A thrown error is caught and shown as a warning that names the file; the
\* results of edit and save are not read.
RollMarkSource ==
    /\ rPc = "MarkSources"
    /\ UNCHANGED <<rRoot, rRuns>>
    /\ rIdx <= Len(rByFile)
    /\ LET filePath == rByFile[rIdx].filePath
           tasks == rByFile[rIdx].tasks
       IN  \E outcome \in {"ok", "openThrows", "editRejected", "saveFails"} :
            /\ rActive' = IF outcome = "openThrows" THEN rActive ELSE filePath
            /\ rDoc' = IF outcome \in {"ok", "saveFails"}
                       THEN [rDoc EXCEPT ![filePath] = markFileAsMoved(@, tasks)]
                       ELSE rDoc
            /\ rDisk' = IF outcome \in {"ok", "editRejected"}
                        THEN [rDisk EXCEPT ![filePath] = rDoc'[filePath]]
                        ELSE rDisk
            /\ rMsgs' = IF outcome = "openThrows"
                        THEN Append(rMsgs, [kind |-> "warning", what |-> "markFailed",
                                            arg |-> filePath])
                        ELSE rMsgs
            /\ rFailed' = IF outcome = "ok" THEN rFailed ELSE rFailed \cup {filePath}
    /\ rIdx' = rIdx + 1
    /\ UNCHANGED <<rPc, rToday, rEnum, rDoc0, rPast, rByFile, rInserted,
                   toggleVars, filterVars, scanVars, parseVars, pointVars, batchVars>>

\* after the loop: today's note is saved only if the active editor still shows
\* it, then the success message is shown
RollCommit ==
    /\ rPc = "MarkSources"
    /\ UNCHANGED <<rRoot, rRuns>>
    /\ rIdx > Len(rByFile)
    /\ \E saved \in BOOLEAN :
        rDisk' = IF rActive = TodayPath /\ saved
                 THEN [rDisk EXCEPT ![TodayPath] = rDoc[TodayPath]]
                 ELSE rDisk
    /\ rMsgs' = Append(rMsgs, [kind |-> "info", what |-> "success", arg |-> Len(rPast)])
    /\ rPc' = "Done"
    /\ UNCHANGED <<rToday, rEnum, rDoc, rDoc0, rActive, rPast, rByFile, rIdx, rInserted,
                   rFailed, toggleVars, filterVars, scanVars, parseVars, pointVars, batchVars>>

\* the success message of the run was shown
ReportedSuccess == \E i \in 1..Len(rMsgs) : rMsgs[i].what = "success"

\* the command is run again after a run that reported success, on the same
\* day and with no edit in between; rRuns keeps what the ended run showed and
\* did
RollAgain ==
    /\ rPc = "Done"
    /\ ReportedSuccess
    /\ Len(rRuns) < MaxRuns - 1
    /\ rRuns' = Append(rRuns, [msgs |-> rMsgs, inserted |-> rInserted, failed |-> rFailed,
                                past |-> rPast])
    /\ rPc' = "Init"
    /\ rToday' = 0
    /\ rDoc0' = rDoc
    /\ rPast' = <<>>
    /\ rByFile' = <<>>
    /\ rIdx' = 0
    /\ rMsgs' = <<>>
    /\ rInserted' = FALSE
    /\ rFailed' = {}
    /\ UNCHANGED <<rEnum, rDisk, rDoc, rActive, rRoot,
                   toggleVars, filterVars, scanVars, parseVars, pointVars, batchVars>>

NextRoll == RollStart \/ RollDiscover \/ RollCreateTarget \/ RollInsert
            \/ RollMarkSource \/ RollCommit \/ RollAgain

SpecRoll == InitRoll /\ [][NextRoll]_vars

(***************************************************************************)
(* TaskScanner (taskScanner.ts)                                           *)
(***************************************************************************)
CacheTimeoutDefault == 30000
WaitLimit == 5000
WaitInterval == 100

MaxCalls == 2
MaxEdits == 2
MaxConfigChanges == 1
MaxElapse == 1
MaxFailures == 1
MaxRemovals == 1

MaxCallers == 2

\* the slots of the calls of getOpenTasks in flight
Callers == 1..MaxCallers

\* the two journal roots the folderPath setting switches between
Roots == {"J", "K"}
RootPath(root) == <<"/", root>>
OtherRoot(root) == IF root = "J" THEN "K" ELSE "J"

\* findFiles(new RelativePattern(journalFolderPath, '**/*.md'))
\* the notes live under /J; the other folder holds no markdown file
FilesUnder(root) == IF root = "J" THEN <<N1, N2>> ELSE <<>>

ScanFiles == {N1, N2}

FileText(f) == IF f = N1 THEN TxtA ELSE TxtB

\* the two contents a note alternates between when it is edited
BodyOne(f) == << MarkerLine(KwTODO, <<"1">>, <<"1">>, D240101, FileText(f)) >>
BodyTwo(f) == << <<"x">>, MarkerLine(KwTODO, <<"2">>, <<"1">>, D240101, FileText(f)),
                 MarkerLine(KwCOMPLETE, <<"1">>, <<"1">>, D240101, FileText(f)) >>

NoCache == [none |-> TRUE]
NoPath == <<>>

Has(m, k) == k \in DOMAIN m
Put(m, k, v) == [x \in (DOMAIN m) \cup {k} |-> IF x = k THEN v ELSE m[x]]
Del(m, k) == [x \in (DOMAIN m) \ {k} |-> m[x]]

Range(seq) == {seq[i] : i \in 1..Len(seq)}

TasksOfFile(tasks, filePath) ==
    LET inFile(task) == task.filePath = filePath
    IN  SelectSeq(tasks, inFile)

NotOfFile(tasks, filePath) ==
    LET other(task) == task.filePath # filePath
    IN  SelectSeq(tasks, other)

endsWith(s, lit) == HasLit(s, Len(s) - Len(lit) + 1, lit)

isMarkdownInJournalFolder(fsPath) ==
    IF journalFolderPath = NoPath THEN FALSE
    ELSE startsWith(fsPath, journalFolderPath) /\ endsWith(fsPath, <<".", "m", "d">>)

\* an invalidation that forgets every file
invalidateWholeCache(cache, filePath) ==
    IF cache # NoCache
    THEN [tasks |-> <<>>, lastScanTime |-> cache.lastScanTime,
          fileVersions |-> <<>>, fileTimestamps |-> <<>>]
    ELSE cache

invalidateFileInCache(cache, filePath) ==
    IF cache # NoCache
    THEN [tasks |-> NotOfFile(cache.tasks, filePath),
          lastScanTime |-> cache.lastScanTime,
          fileVersions |-> Del(cache.fileVersions, filePath),
          fileTimestamps |-> Del(cache.fileTimestamps, filePath)]
    ELSE cache

\* shouldRescanFile up to its await: the recorded version equals the document's
VersionHit(cache, filePath, fileVersion) ==
    /\ cache # NoCache
    /\ Has(cache.fileVersions, filePath)
    /\ cache.fileVersions[filePath] = fileVersion

\* shouldRescanFile after stat: the recorded modified-time equals the file's
TimestampHit(cache, filePath, lastModified) ==
    /\ cache # NoCache
    /\ Has(cache.fileTimestamps, filePath)
    /\ cache.fileTimestamps[filePath] = lastModified

\* the locals of one getOpenTasks call; io, opened, parsed, failed, touched and
\* second record what the call did: the kinds of file access, the files whose
\* document openTextDocument read, the files whose document was parsed, the files that failed to open, the files that changed
\* since the pass began, and how the call started
IdleLoc == [currentTime |-> 0, waitTime |-> 0, files |-> <<>>, i |-> 0,
            fileVersion |-> 0, tasks |-> <<>>, allTasks |-> <<>>,
            io |-> {}, opened |-> {}, parsed |-> {}, failed |-> {}, touched |-> {},
            second |-> FALSE]

NoDec == [file |-> <<>>, reuse |-> FALSE, vMatch |-> FALSE, tMatch |-> FALSE]

\* the latest call that returned, and the latest pass that replaced the cache
NoRet == [res |-> <<>>, io |-> {}, second |-> FALSE, root |-> ""]
NoPass == [files |-> <<>>, kept |-> {}, opened |-> {}, parsed |-> {}, failed |-> {},
           prevFailed |-> {}, before |-> <<>>, after |-> <<>>]
NoHist == [quiet |-> FALSE, scanAt |-> 0 - 1, prevRes |-> <<>>, last |-> NoRet,
           touched |-> {}, snap |-> <<>>, passes |-> 0, pass |-> NoPass]

PassPcs == {"enumerate", "open", "stat", "stamp"}

\* a change of the files F: the passes in flight and the history note it
TouchLoc(F) ==
    [c \in Callers |-> IF sPc[c] \in PassPcs
                       THEN [sLoc[c] EXCEPT !.touched = @ \cup F]
                       ELSE sLoc[c]]
TouchHist(F) == [sHist EXCEPT !.touched = @ \cup F, !.quiet = FALSE]

InitScan ==
    /\ sNow = 0
    /\ sRoot = "J"
    /\ sFs = [f \in ScanFiles |-> [version |-> 1, mtime |-> 1, body |-> BodyOne(f),
                                   exists |-> TRUE]]
    /\ sCache = NoCache
    /\ scanInProgress = FALSE
    /\ journalFolderPath = NoPath
    /\ sPc = [c \in Callers |-> "idle"]
    /\ sLoc = [c \in Callers |-> IdleLoc]
    /\ sRes = [c \in Callers |-> <<>>]
    /\ sPending = {}
    /\ sMust = [c \in Callers |-> {}]
    /\ sOk = [c \in Callers |-> TRUE]
    /\ sDec = NoDec
    /\ sHist = NoHist
    /\ sBudget = [calls |-> MaxCalls, edits |-> MaxEdits, cfg |-> MaxConfigChanges,
                  elapse |-> MaxElapse, fail |-> MaxFailures, remove |-> MaxRemovals]
    /\ IdleToggle
    /\ IdleFilter
    /\ IdleRoll
    /\ IdleParse
    /\ IdlePoint
    /\ IdleBatch

\* what a returning call leaves behind: its result, and whether the result
\* holds the current TODO tasks of every file saved before the call
Return(c, result, must, h, io, second) ==
    /\ sPc' = [sPc EXCEPT ![c] = "done"]
    /\ sRes' = [sRes EXCEPT ![c] = result]
    /\ sLoc' = [sLoc EXCEPT ![c] = IdleLoc]
    /\ sOk' = [sOk EXCEPT ![c] =
                 \A f \in must :
                    Range(OpenTasksOf(ParseLines(sFs[f].body, f, 0))) \subseteq Range(result)]
    /\ sHist' = [h EXCEPT !.prevRes = h.last.res,
                          !.last = [res |-> result, io |-> io, second |-> second,
                                    root |-> sRoot]]

\* lines 197-210: the synchronous start of a reconciliation pass
BeginPass(c, currentTime, second) ==
    /\ scanInProgress' = TRUE
    /\ sCache' = IF sCache = NoCache
                 THEN [tasks |-> <<>>, lastScanTime |-> currentTime,
                       fileVersions |-> <<>>, fileTimestamps |-> <<>>]
                 ELSE sCache
    /\ sPc' = [sPc EXCEPT ![c] = "enumerate"]
    /\ sLoc' = [sLoc EXCEPT ![c] = [IdleLoc EXCEPT !.currentTime = currentTime,
                                                   !.second = second]]
    /\ UNCHANGED <<sRes, sOk>>

\* what the history keeps of a pass that replaced the cache; kept are the
\* files the pass before enumerated that did not change since it began
PassDone(h, loc, allTasks) ==
    [h EXCEPT !.pass = [files |-> loc.files,
                        kept |-> IF h.passes = 0 THEN {}
                                 ELSE Range(h.pass.files) \ h.touched,
                        opened |-> loc.opened,
                        parsed |-> loc.parsed, failed |-> loc.failed,
                        prevFailed |-> h.pass.failed,
                        before |-> h.snap, after |-> allTasks],
              !.snap = allTasks,
              !.touched = loc.touched,
              !.passes = 1,
              !.scanAt = sNow]

\* lines 229-244: the end of a pass; this.cache.fileVersions throws when the
\* cache was reset meanwhile, the catch returns [] and finally clears the flag
FinishPass(c, loc, cache, allTasks, h) ==
    /\ scanInProgress' = FALSE
    /\ IF cache = NoCache
       THEN /\ sCache' = cache
            /\ Return(c, <<>>, sMust[c], h, loc.io, loc.second)
       ELSE /\ sCache' = [cache EXCEPT !.tasks = allTasks, !.lastScanTime = sNow]
            /\ Return(c, OpenTasksOf(allTasks), sMust[c], PassDone(h, loc, allTasks),
                      loc.io, loc.second)

\* scanFileForTasks returned `got` for the current file: the next file of the
\* batch, or the end of the pass
FileDone(c, loc, cache, got, h) ==
    LET all == loc.allTasks \o got
    IN  IF loc.i < Len(loc.files)
        THEN /\ sPc' = [sPc EXCEPT ![c] = "open"]
             /\ sLoc' = [sLoc EXCEPT ![c] = [loc EXCEPT !.i = @ + 1, !.allTasks = all,
                                                       !.tasks = <<>>]]
             /\ sCache' = cache
             /\ sHist' = h
             /\ UNCHANGED <<scanInProgress, sRes, sOk>>
        ELSE FinishPass(c, loc, cache, all, h)

\* a call slot is free when no call runs in it
Free(c) == sPc[c] \in {"idle", "done"}

\* no cache is ever recent enough to be served
CacheNeverRecent(cache, currentTime, inProgress) == FALSE

\* line 178: a cache exists, it is younger than the timeout and no scan runs
CacheIsRecent(cache, currentTime, inProgress) ==
    /\ cache # NoCache
    /\ currentTime - cache.lastScanTime < CacheTimeoutDefault
    /\ ~inProgress

\* getOpenTasks up to its first await; the call takes the first free slot.
\* The history notes whether the call starts with no other call in flight,
\* with nothing changed since the call before it started alone, and within
\* the timeout of the latest pass.
Call(c) ==
    /\ Free(c)
    /\ \A d \in Callers : Free(d) => c <= d
    /\ sBudget.calls > 0
    /\ sBudget' = [sBudget EXCEPT !.calls = @ - 1]
    /\ sMust' = [sMust EXCEPT ![c] = sPending]
    /\ sPending' = {}
    /\ LET alone == \A d \in Callers : Free(d)
           second == /\ alone
                     /\ sHist.quiet
                     /\ sHist.scanAt >= 0
                     /\ sNow - sHist.scanAt < CacheTimeoutDefault
           h == [sHist EXCEPT !.quiet = alone]
       IN  IF CacheIsRecent(sCache, sNow, scanInProgress)
           THEN /\ Return(c, OpenTasksOf(sCache.tasks), sPending, h, {}, second)
                /\ UNCHANGED <<sCache, scanInProgress>>
           ELSE IF scanInProgress
           THEN /\ sPc' = [sPc EXCEPT ![c] = "waiting"]
                /\ sLoc' = [sLoc EXCEPT ![c] = [IdleLoc EXCEPT !.currentTime = sNow,
                                                               !.second = second]]
                /\ sHist' = h
                /\ UNCHANGED <<sCache, scanInProgress, sRes, sOk>>
           ELSE /\ BeginPass(c, sNow, second)
                /\ sHist' = h
    /\ UNCHANGED <<sNow, sRoot, sFs, journalFolderPath, sDec,
                   toggleVars, filterVars, rollVars, parseVars, pointVars, batchVars>>

\* a loop condition without the limit
waitLoopNoLimit(inProgress, waitTime) == inProgress

\* line 187: while (this.scanInProgress && waitTime < 5000)
waitLoopGoesOn(inProgress, waitTime) == inProgress /\ waitTime < WaitLimit

\* lines 184-195: the wait loop leaves.  It polls every 100 ms while a scan is
\* in progress and fewer than 5000 ms were waited: either a poll finds the
\* scan finished, or the polls run up to the limit with the scan still in
\* progress.  Then the cached tasks are returned if a cache exists, else a
\* pass begins.
WaitTick(c) ==
    /\ sPc[c] = "waiting"
    /\ LET waitTime == IF scanInProgress THEN WaitLimit
                       ELSE sLoc[c].waitTime + WaitInterval
       IN  /\ ~waitLoopGoesOn(scanInProgress, waitTime)
           /\ sNow' = sNow + (waitTime - sLoc[c].waitTime)
           /\ IF sCache # NoCache
              THEN /\ Return(c, OpenTasksOf(sCache.tasks), sMust[c], sHist, {},
                             sLoc[c].second)
                   /\ UNCHANGED <<sCache, scanInProgress>>
              ELSE /\ BeginPass(c, sLoc[c].currentTime, sLoc[c].second)
                   /\ UNCHANGED sHist
    /\ UNCHANGED <<sRoot, sFs, journalFolderPath, sPending, sMust, sDec, sBudget,
                   toggleVars, filterVars, rollVars, parseVars, pointVars, batchVars>>

\* the files of an enumeration that exist
Present(files) ==
    LET there(f) == sFs[f].exists
    IN  SelectSeq(files, there)

\* findMarkdownFiles: the journal folder of the configuration is recorded and
\* its markdown files are enumerated; with no file the pass ends at once
Enumerate(c) ==
    /\ sPc[c] = "enumerate"
    /\ journalFolderPath' = RootPath(sRoot)
    /\ LET files == Present(FilesUnder(sRoot))
           loc == [sLoc[c] EXCEPT !.files = files, !.i = 1, !.io = @ \cup {"findFiles"}]
       IN  IF Len(files) = 0
           THEN FinishPass(c, loc, sCache, <<>>, sHist)
           ELSE /\ sPc' = [sPc EXCEPT ![c] = "open"]
                /\ sLoc' = [sLoc EXCEPT ![c] = loc]
                /\ UNCHANGED <<sCache, scanInProgress, sRes, sOk, sHist>>
    /\ UNCHANGED <<sNow, sRoot, sFs, sPending, sMust, sDec, sBudget,
                   toggleVars, filterVars, rollVars, parseVars, pointVars, batchVars>>

\* scanFileForTasks, lines 130-136: openTextDocument resolved; shouldRescanFile
\* runs up to its await of stat.  Without a cache the file is parsed at once;
\* with the recorded version equal to the document's, the cached tasks of the
\* file are returned; else stat is awaited.
OpenFile(c) ==
    /\ sPc[c] = "open"
    /\ sFs[sLoc[c].files[sLoc[c].i]].exists
    /\ LET file == sLoc[c].files[sLoc[c].i]
           loc == [sLoc[c] EXCEPT !.io = @ \cup {"open"}, !.opened = @ \cup {file}]
           read == [loc EXCEPT !.parsed = @ \cup {file}]
           fileVersion == sFs[file].version
       IN  IF sCache = NoCache
           THEN /\ FileDone(c, read, sCache, ParseLines(sFs[file].body, file, 0), sHist)
                /\ UNCHANGED sDec
           ELSE IF VersionHit(sCache, file, fileVersion)
           THEN /\ FileDone(c, loc, sCache, TasksOfFile(sCache.tasks, file), sHist)
                /\ sDec' = [file |-> file, reuse |-> TRUE, vMatch |-> TRUE,
                            tMatch |-> TimestampHit(sCache, file, sFs[file].mtime)]
           ELSE /\ sPc' = [sPc EXCEPT ![c] = "stat"]
                /\ sLoc' = [sLoc EXCEPT ![c] = [loc EXCEPT !.fileVersion = fileVersion]]
                /\ UNCHANGED <<sCache, scanInProgress, sRes, sOk, sDec, sHist>>
    /\ UNCHANGED <<sNow, sRoot, sFs, journalFolderPath, sPending, sMust, sBudget,
                   toggleVars, filterVars, rollVars, parseVars, pointVars, batchVars>>

\* a failing file that keeps the tasks the cache holds for it
cachedTasksOnError(cache, file) ==
    IF cache = NoCache THEN <<>> ELSE TasksOfFile(cache.tasks, file)

\* lines 163-167: the catch of scanFileForTasks returns no task
tasksOnError(cache, file) == <<>>

\* scanFileForTasks, lines 129-131 and 163-167: openTextDocument rejects (the
\* file was removed after the enumeration, or the read fails for once); the
\* catch reports the error and the file yields no task
OpenFails(c) ==
    /\ sPc[c] = "open"
    /\ LET file == sLoc[c].files[sLoc[c].i]
           loc == [sLoc[c] EXCEPT !.io = @ \cup {"open"}, !.failed = @ \cup {file}]
       IN  /\ IF sFs[file].exists
              THEN /\ sBudget.fail > 0
                   /\ sBudget' = [sBudget EXCEPT !.fail = @ - 1]
              ELSE UNCHANGED sBudget
           /\ FileDone(c, loc, sCache, tasksOnError(sCache, file),
                       [sHist EXCEPT !.quiet = FALSE])
    /\ UNCHANGED <<sNow, sRoot, sFs, journalFolderPath, sPending, sMust, sDec,
                   toggleVars, filterVars, rollVars, parseVars, pointVars, batchVars>>

\* lines 105-123 and 138-155: stat resolved.  With the recorded modified-time
\* equal to the file's, the document version is recorded and the cached tasks
\* are returned; else (or when stat rejects, the file being removed) every
\* line of the document is parsed, the version read at the open is recorded
\* and stat is awaited again.
StatFile(c) ==
    /\ sPc[c] = "stat"
    /\ LET file == sLoc[c].files[sLoc[c].i]
           loc == [sLoc[c] EXCEPT !.io = @ \cup {"stat"}]
           read == [loc EXCEPT !.parsed = @ \cup {file}]
           lastModified == sFs[file].mtime
       IN  IF sFs[file].exists /\ TimestampHit(sCache, file, lastModified)
           THEN /\ LET cache == [sCache EXCEPT !.fileVersions =
                                    Put(@, file, loc.fileVersion)]
                   IN  FileDone(c, loc, cache, TasksOfFile(cache.tasks, file), sHist)
                /\ sDec' = [file |-> file, reuse |-> TRUE,
                            vMatch |-> VersionHit(sCache, file, sFs[file].version),
                            tMatch |-> TRUE]
           ELSE /\ LET tasks == ParseLines(sFs[file].body, file, 0)
                   IN  IF sCache = NoCache
                       THEN FileDone(c, read, sCache, tasks, sHist)
                       ELSE /\ sCache' = [sCache EXCEPT !.fileVersions =
                                             Put(@, file, loc.fileVersion)]
                            /\ sPc' = [sPc EXCEPT ![c] = "stamp"]
                            /\ sLoc' = [sLoc EXCEPT ![c] = [read EXCEPT !.tasks = tasks]]
                            /\ UNCHANGED <<scanInProgress, sRes, sOk, sHist>>
                /\ sDec' = [file |-> file, reuse |-> FALSE, vMatch |-> FALSE,
                            tMatch |-> FALSE]
    /\ UNCHANGED <<sNow, sRoot, sFs, journalFolderPath, sPending, sMust, sBudget,
                   toggleVars, filterVars, rollVars, parseVars, pointVars, batchVars>>

\* lines 154-162: the second stat resolved; the modified-time is recorded (a
\* cache reset meanwhile makes the statement throw, and so does a removed
\* file: both are only logged) and the parsed tasks are returned
StampFile(c) ==
    /\ sPc[c] = "stamp"
    /\ LET loc == sLoc[c]
           file == loc.files[loc.i]
           cache == IF sCache = NoCache \/ ~sFs[file].exists THEN sCache
                    ELSE [sCache EXCEPT !.fileTimestamps = Put(@, file, sFs[file].mtime)]
       IN  FileDone(c, loc, cache, loc.tasks, sHist)
    /\ UNCHANGED <<sNow, sRoot, sFs, journalFolderPath, sPending, sMust, sDec, sBudget,
                   toggleVars, filterVars, rollVars, parseVars, pointVars, batchVars>>

\* the user types in the editor of a note: a new document version, not saved
\* (what was owed for the text saved before is no longer owed)
Edit(f) ==
    /\ sBudget.edits > 0
    /\ sFs[f].exists
    /\ sBudget' = [sBudget EXCEPT !.edits = @ - 1]
    /\ sFs' = [sFs EXCEPT ![f] = [version |-> @.version + 1, mtime |-> @.mtime,
                                  body |-> IF @.body = BodyOne(f) THEN BodyTwo(f)
                                           ELSE BodyOne(f),
                                  exists |-> TRUE]]
    /\ sPending' = sPending \ {f}
    /\ sMust' = [c \in Callers |-> sMust[c] \ {f}]
    /\ sLoc' = TouchLoc({f})
    /\ sHist' = TouchHist({f})
    /\ UNCHANGED <<sNow, sRoot, sCache, scanInProgress, journalFolderPath, sPc, sRes,
                   sOk, sDec, toggleVars, filterVars, rollVars, parseVars, pointVars, batchVars>>

\* the user saves a note: a new modified-time, and onDidSaveTextDocument
\* (lines 24-28) invalidates the file in the cache
Save(f) ==
    /\ sBudget.edits > 0
    /\ sFs[f].exists
    /\ sBudget' = [sBudget EXCEPT !.edits = @ - 1]
    /\ sFs' = [sFs EXCEPT ![f].mtime = @ + 1]
    /\ IF isMarkdownInJournalFolder(f)
       THEN /\ sCache' = invalidateFileInCache(sCache, f)
            /\ sPending' = sPending \cup {f}
       ELSE UNCHANGED <<sCache, sPending>>
    /\ sLoc' = TouchLoc({f})
    /\ sHist' = TouchHist({f})
    /\ UNCHANGED <<sNow, sRoot, scanInProgress, journalFolderPath, sPc, sRes,
                   sMust, sOk, sDec, toggleVars, filterVars, rollVars, parseVars, pointVars, batchVars>>

\* a note is deleted outside the editor: later enumerations no longer list it
Remove(f) ==
    /\ sBudget.remove > 0
    /\ sFs[f].exists
    /\ sBudget' = [sBudget EXCEPT !.remove = @ - 1]
    /\ sFs' = [sFs EXCEPT ![f].exists = FALSE]
    /\ sPending' = sPending \ {f}
    /\ sMust' = [c \in Callers |-> sMust[c] \ {f}]
    /\ sLoc' = TouchLoc({f})
    /\ sHist' = TouchHist({f})
    /\ UNCHANGED <<sNow, sRoot, sCache, scanInProgress, journalFolderPath, sPc, sRes,
                   sOk, sDec, toggleVars, filterVars, rollVars, parseVars, pointVars, batchVars>>

\* onDidChangeConfiguration (lines 31-37) for calmdown.folderPath
ConfigChange ==
    /\ sBudget.cfg > 0
    /\ sBudget' = [sBudget EXCEPT !.cfg = @ - 1]
    /\ sRoot' = OtherRoot(sRoot)
    /\ sCache' = NoCache
    /\ journalFolderPath' = NoPath
    /\ sPending' = {}
    /\ sMust' = [c \in Callers |-> {}]
    /\ sLoc' = TouchLoc(ScanFiles)
    /\ sHist' = TouchHist(ScanFiles)
    /\ UNCHANGED <<sNow, sFs, scanInProgress, sPc, sRes, sOk, sDec,
                   toggleVars, filterVars, rollVars, parseVars, pointVars, batchVars>>

\* the staleness window passes
Elapse ==
    /\ sBudget.elapse > 0
    /\ sBudget' = [sBudget EXCEPT !.elapse = @ - 1]
    /\ sNow' = sNow + CacheTimeoutDefault
    /\ UNCHANGED <<sRoot, sFs, sCache, scanInProgress, journalFolderPath, sPc, sLoc, sRes,
                   sPending, sMust, sOk, sDec, sHist, toggleVars, filterVars, rollVars, parseVars, pointVars, batchVars>>

NextScan ==
    \/ \E c \in Callers : Call(c)
    \/ \E c \in Callers : WaitTick(c)
    \/ \E c \in Callers : Enumerate(c)
    \/ \E c \in Callers : OpenFile(c)
    \/ \E c \in Callers : OpenFails(c)
    \/ \E c \in Callers : StatFile(c)
    \/ \E c \in Callers : StampFile(c)
    \/ \E f \in ScanFiles : Edit(f)
    \/ \E f \in ScanFiles : Save(f)
    \/ \E f \in ScanFiles : Remove(f)
    \/ ConfigChange
    \/ Elapse

SpecScan == InitScan /\ [][NextScan]_vars

\* the records of the two notes once a first pass has parsed both of them
WarmTasks == ParseLines(BodyOne(N1), N1, 0) \o ParseLines(BodyOne(N2), N2, 0)

\* The scanner after a first call of getOpenTasks scanned both notes and
\* returned, and the cache window passed: the cache holds the records, the
\* version and the modification time of each note.
InitWarm ==
    /\ sNow = CacheTimeoutDefault
    /\ sRoot = "J"
    /\ sFs = [f \in ScanFiles |-> [version |-> 1, mtime |-> 1, body |-> BodyOne(f),
                                   exists |-> TRUE]]
    /\ sCache = [tasks |-> WarmTasks, lastScanTime |-> 0,
                 fileVersions |-> [f \in ScanFiles |-> 1],
                 fileTimestamps |-> [f \in ScanFiles |-> 1]]
    /\ scanInProgress = FALSE
    /\ journalFolderPath = RootPath("J")
    /\ sPc = [c \in Callers |-> IF c = 1 THEN "done" ELSE "idle"]
    /\ sLoc = [c \in Callers |-> IdleLoc]
    /\ sRes = [c \in Callers |-> IF c = 1 THEN OpenTasksOf(WarmTasks) ELSE <<>>]
    /\ sPending = {}
    /\ sMust = [c \in Callers |-> {}]
    /\ sOk = [c \in Callers |-> TRUE]
    /\ sDec = [NoDec EXCEPT !.file = N2]
    /\ sHist = [quiet |-> TRUE, scanAt |-> 0, prevRes |-> <<>>,
                last |-> [res |-> OpenTasksOf(WarmTasks), io |-> {"findFiles", "open", "stat"},
                          second |-> FALSE, root |-> "J"],
                touched |-> {}, snap |-> WarmTasks, passes |-> 1,
                pass |-> [files |-> <<N1, N2>>, kept |-> {}, opened |-> ScanFiles,
                          parsed |-> ScanFiles,
                          failed |-> {}, prevFailed |-> {}, before |-> <<>>,
                          after |-> WarmTasks]]
    /\ sBudget = [calls |-> MaxCalls, edits |-> MaxEdits, cfg |-> MaxConfigChanges,
                  elapse |-> MaxElapse, fail |-> MaxFailures, remove |-> MaxRemovals]
    /\ IdleToggle
    /\ IdleFilter
    /\ IdleRoll
    /\ IdleParse
    /\ IdlePoint
    /\ IdleBatch

SpecWarm == InitWarm /\ [][NextScan]_vars

PassesRunning == {c \in Callers : sPc[c] \in {"enumerate", "open", "stat", "stamp"}}

(***************************************************************************)
(* Specification of the marker round trip: fields are emitted as a marker *)
(* line, the way addTasksToTodaysNote writes one, and the line is parsed  *)
(***************************************************************************)
\* the status a state keyword stands for
StatusOf(kw) ==
    IF kw = KwTODO THEN "TODO" ELSE IF kw = KwCOMPLETE THEN "COMPLETE" ELSE "ROLLED"

\* `-=<KW> ${priority} ${difficulty} ${dueDate}=- ${text}`
emitMarker(kw, task) ==
    MarkerPrefix(kw, NumToStr(task.priority), NumToStr(task.difficulty), task.dueDate)
        \o <<" ">> \o task.text

ParseKeywords == {KwTODO, KwCOMPLETE, KwROLL}
ParseNumbers == {0, 1, 12}
ParseDates == {D240101, D991231}
ParseTexts == {<<>>, <<"a">>, <<"a", " ", "b">>, <<" ", "a">>, <<"a", " ">>}
ParseLineNumbers == {0, 7}
\* what a note may hold in front of a marker
ParsePrefixes == {<<>>, <<"-", " ">>}

InitParse ==
    /\ pPc = "fields"
    /\ pFields \in [kw : ParseKeywords, priority : ParseNumbers, difficulty : {1, 3},
                    dueDate : ParseDates, text : ParseTexts, line : ParseLineNumbers]
    /\ pLine = <<>>
    /\ pOut = Null
    /\ IdleToggle
    /\ IdleFilter
    /\ IdleRoll
    /\ IdleScan
    /\ IdlePoint
    /\ IdleBatch

\* the marker line is written into a note
EmitLine ==
    /\ pPc = "fields"
    /\ \E pre \in ParsePrefixes : pLine' = pre \o emitMarker(pFields.kw, pFields)
    /\ pPc' = "emitted"
    /\ UNCHANGED <<pFields, pOut, toggleVars, filterVars, rollVars, scanVars, pointVars, batchVars>>

\* the scanner parses the line
ParseLine ==
    /\ pPc = "emitted"
    /\ pOut' = parseTask(pLine, N1, pFields.line)
    /\ pPc' = "parsed"
    /\ UNCHANGED <<pFields, pLine, toggleVars, filterVars, rollVars, scanVars, pointVars, batchVars>>

NextParse == EmitLine \/ ParseLine

SpecParse == InitParse /\ [][NextParse]_vars


(***************************************************************************)
(* Specification of findInsertPositionInNote applied to a document        *)
(***************************************************************************)
MaxLines == 4

\* the lines a document is made of: the section heading for rolled over
\* tasks, another section heading, a title, an empty line, a line of spaces
\* and a line of text
PointLines == {HRollovered, LLog, LNote, <<>>, <<" ">>, <<"x">>}

\* a text document has at least one line
PointDocs == UNION {[1..n -> PointLines] : n \in 1..MaxLines}

NoPosition == [none |-> TRUE]

InitPoint ==
    /\ iDoc \in PointDocs
    /\ iPos = NoPosition
    /\ IdleToggle
    /\ IdleFilter
    /\ IdleRoll
    /\ IdleScan
    /\ IdleParse
    /\ IdleBatch

\* let insertPosition = findInsertPositionInNote(document)
FindPoint ==
    /\ iPos = NoPosition
    /\ iPos' = findInsertPositionInNote(iDoc)
    /\ UNCHANGED <<iDoc, toggleVars, filterVars, rollVars, scanVars, parseVars, batchVars>>

NextPoint == FindPoint

SpecPoint == InitPoint /\ [][NextPoint]_vars

(***************************************************************************)
(* Specification of the batch loop of a reconciliation pass                *)
(* (getOpenTasks, lines 197-245), for any number of enumerated files       *)
(***************************************************************************)
BatchSize == 20

MaxFiles == 41

\* the files findMarkdownFiles returns are numbered from 1
BatchFiles == 1..bFiles

InitBatch ==
    /\ bPc = "idle"
    /\ bFiles \in 0..MaxFiles
    /\ bI = 0
    /\ bScans = [f \in 1..bFiles |-> 0]
    /\ bFlag = FALSE
    /\ bLog = <<>>
    /\ bResult = "none"
    /\ IdleToggle
    /\ IdleFilter
    /\ IdleRoll
    /\ IdleScan
    /\ IdleParse
    /\ IdlePoint

\* lines 197-213: the flag is set, findMarkdownFiles is awaited, let i = 0
BatchBegin ==
    /\ bPc = "idle"
    /\ bFlag' = TRUE
    /\ bI' = 0
    /\ bPc' = "loop"
    /\ UNCHANGED <<bFiles, bScans, bLog, bResult, toggleVars, filterVars, rollVars, scanVars, parseVars, pointVars>>

\* a batch that takes every file from i on
ScanRest ==
    /\ bPc = "loop"
    /\ bI < bFiles
    /\ bScans' = [f \in BatchFiles |-> IF f > bI THEN bScans[f] + 1 ELSE bScans[f]]
    /\ bLog' = Append(bLog, [kind |-> "batch", size |-> bFiles - bI])
    /\ bI' = bFiles
    /\ UNCHANGED <<bPc, bFiles, bFlag, bResult, toggleVars, filterVars, rollVars, scanVars, parseVars, pointVars>>

\* lines 216-228: one turn of the loop up to its pause: slice(i, i + batchSize),
\* Promise.all over scanFileForTasks of the batch; without another batch to
\* come the turn ends with i += batchSize
ScanBatch ==
    /\ bPc = "loop"
    /\ bI < bFiles
    /\ bScans' = [f \in BatchFiles |->
                    IF f > bI /\ f <= bI + BatchSize THEN bScans[f] + 1 ELSE bScans[f]]
    /\ bLog' = Append(bLog, [kind |-> "batch", size |-> Min(bI + BatchSize, bFiles) - bI])
    /\ IF bI + BatchSize < bFiles
       THEN bPc' = "pause" /\ bI' = bI
       ELSE bPc' = "loop" /\ bI' = bI + BatchSize
    /\ UNCHANGED <<bFiles, bFlag, bResult, toggleVars, filterVars, rollVars, scanVars, parseVars, pointVars>>

\* lines 225-227: the timer of the pause fired; i += batchSize
BatchPause ==
    /\ bPc = "pause"
    /\ bLog' = Append(bLog, [kind |-> "pause", size |-> 0])
    /\ bI' = bI + BatchSize
    /\ bPc' = "loop"
    /\ UNCHANGED <<bFiles, bScans, bFlag, bResult, toggleVars, filterVars, rollVars, scanVars, parseVars, pointVars>>

\* lines 229-244: the loop is over.  The cache is replaced and the TODO tasks
\* are returned, or, the cache having been reset by a configuration change
\* during the pass, this.cache.fileVersions throws and the catch returns [];
\* finally clears the flag
BatchFinish ==
    /\ bPc = "loop"
    /\ bI >= bFiles
    /\ \E cacheReset \in BOOLEAN :
          bResult' = IF cacheReset THEN "caught" ELSE "returned"
    /\ bFlag' = FALSE
    /\ bPc' = "done"
    /\ UNCHANGED <<bFiles, bI, bScans, bLog, toggleVars, filterVars, rollVars, scanVars, parseVars, pointVars>>

NextBatch == BatchBegin \/ ScanBatch \/ BatchPause \/ BatchFinish

\* the awaited promises of a pass resolve and its timers fire
SpecBatch == InitBatch /\ [][NextBatch]_vars /\ WF_vars(NextBatch)

(***************************************************************************)
(* Properties                                                              *)
(***************************************************************************)

\* C1: on one TaskScanner at most one reconciliation pass executes at any
\* time, whatever the interleaving of getOpenTasks calls, save notifications
\* and configuration changes
C1_AtMostOnePass == Cardinality(PassesRunning) <= 1

\* C2: the result of the first getOpenTasks call after a save notification
\* for a journal note f contains the TODO tasks f holds now
C2_SavedFileServed == \A c \in Callers : sPc[c] = "done" => sOk[c]

\* C3: a pass reuses the cached entry of a file only if both the recorded
\* version and the recorded modified-time equal the file's current values
C3_ReuseNeedsBoth == sDec.reuse => (sDec.vMatch /\ sDec.tMatch)

\* C4: a TODO marker line toggled twice is the original line again, with its
\* original date
C4_RoundTrip ==
    (Len(tDays) = 2 /\ RegexMatch(tOrig, KwTODO).found) =>
        /\ RegexMatch(tLine, KwTODO).found
        /\ RegexMatch(tLine, KwTODO).g3 = RegexMatch(tOrig, KwTODO).g3

\* C5: when the rollover reports success every file it changed is saved, the
\* source notes and today's note
C5_SuccessSavesAll ==
    ReportedSuccess => \A f \in RollFiles : rDoc[f] # rDoc0[f] => rDisk[f] = rDoc[f]

SourcesUntouched == \A f \in {N1, N2} : rDoc[f] = rDoc0[f]

\* C6: once the insert step has run without the copies being inserted, the
\* run is in Failed and no source line is marked as moved
C6_MarkOnlyAfterInsert ==
    (rIdx >= 1 /\ ~rInserted) => (rPc = "Failed" /\ SourcesUntouched)

Named(f) == \E i \in 1..Len(rMsgs) : rMsgs[i].arg = f

\* C7: a run in which marking or saving a source note failed does not report
\* success, and its report names every file that was not updated
C7_PartialReport ==
    (rPc = "Done" /\ rFailed # {}) => (~ReportedSuccess /\ \A f \in rFailed : Named(f))

DueByOwnDate(task) == IsPastDue(task, fToday)

\* C8: the rollover selects an open task iff its own due date is today or
\* earlier, whatever the date in the name of its note
C8_SelectsByDueDate ==
    fWhich # "none" => fSelected = SelectSeq(fTasks, DueByOwnDate)

ExampleRun == fWhich = "taskRollover" /\ fTasks = ExampleTasks /\ fToday = Day20240115

\* C9 as stated: of the tasks due 240101, 991231 and 300101 the date filter
\* selects, on 2024-01-15, exactly the first two
C9_SelectsFirstTwo == ExampleRun => fSelected = <<ExampleTasks[1], ExampleTasks[2]>>

\* C9 amended: of the tasks due 240101, 991231 and 300101 the date filter
\* selects, on 2024-01-15, exactly the first
C9_SelectsFirstOnly == ExampleRun => fSelected = <<ExampleTasks[1]>>

C9_Witness == ExampleRun /\ Len(fSelected) = 1

\* the lines of the rolled-over section of a note: from its heading to the
\* next section heading
RolledSection(doc) ==
    LET i == FirstLine(doc, 0, "rolled")
        j == FirstLine(doc, i + 1, "section")
    IN  IF doc = Missing \/ i < 0 THEN <<>>
        ELSE SubSeq(doc, i + 2, IF j < 0 THEN Len(doc) ELSE j)

IsTodoLine(l) == RegexMatch(l, KwTODO).found

CopyOf(task) ==
    MarkerPrefix(KwTODO, NumToStr(task.priority), NumToStr(task.difficulty), task.dueDate)
        \o <<" ">> \o task.text

\* a source line rewritten with the ROLL keyword, its fields as they were
MovedLike(new, old) ==
    /\ RegexMatch(new, KwROLL).found
    /\ RegexMatch(new, KwROLL) = RegexMatch(old, KwTODO)

OneOverdueEach ==
    /\ Len(rPast) = 2
    /\ \A f \in {N1, N2} : Len(OpenTasksOf(ParseLines(rDoc0[f], f, 0))) = 1

\* C10: with one overdue TODO task in each of two notes, a rollover without
\* failures leaves a rolled-over section in today's note that holds exactly
\* the two task lines in discovery order, and both source lines carry the
\* ROLL keyword with their fields unchanged
C10_EndToEnd ==
    (rPc = "Done" /\ ReportedSuccess /\ rInserted /\ rFailed = {} /\ OneOverdueEach) =>
        /\ SelectSeq(RolledSection(rDoc[TodayPath]), IsTodoLine)
              = <<CopyOf(rPast[1]), CopyOf(rPast[2])>>
        /\ \A k \in 1..2 :
              MovedLike(rDoc[rPast[k].filePath][rPast[k].line + 1],
                        rDoc0[rPast[k].filePath][rPast[k].line + 1])

\* C11: when a pass replaces the cache, every enumerated file that did not
\* change since the pass before began, and that opened in both passes, is not
\* parsed again and keeps the Task records the cache held for it; only the
\* records of changed files are replaced.
C11_OnlyChangedFileReplaced ==
    \A g \in (sHist.pass.kept \cap Range(sHist.pass.files))
                \ (sHist.pass.failed \cup sHist.pass.prevFailed) :
        /\ g \notin sHist.pass.parsed
        /\ TasksOfFile(sHist.pass.after, g) = TasksOfFile(sHist.pass.before, g)

\* a second pass met one changed file, parsed it again and replaced its
\* records, and reused the records of the other file
C11_Witness ==
    \E f \in ScanFiles, g \in ScanFiles :
        /\ f # g
        /\ {f, g} \subseteq Range(sHist.pass.files)
        /\ sHist.pass.kept = {g}
        /\ sHist.pass.parsed = {f}
        /\ TasksOfFile(sHist.pass.after, f) # TasksOfFile(sHist.pass.before, f)
        /\ TasksOfFile(sHist.pass.after, g) # <<>>

\* C12: a getOpenTasks call that starts with no call in flight, within the
\* timeout of the latest pass, and with no edit, save, removal, read failure
\* or configuration change since the call before it started, returns what
\* that call returned and enumerates, stats and opens no file.
C12_SecondCallServedFromCache ==
    sHist.last.second => (sHist.last.res = sHist.prevRes /\ sHist.last.io = {})

\* such a second call returned the tasks of both notes
C12_Witness ==
    /\ sHist.last.second
    /\ Len(sHist.last.res) = 2
    /\ sHist.prevRes = sHist.last.res

\* C13: when a file fails to open during a pass, the pass still completes and
\* the call returns; the failing file contributes no task, and every other
\* enumerated file (unchanged since the pass began) contributes the tasks it
\* would have contributed anyway: the parsed tasks of its text, or the
\* records the cache held for it.
C13_FailureIsContained ==
    \A x \in sHist.pass.failed :
        /\ TasksOfFile(sHist.pass.after, x) = <<>>
        /\ \A g \in Range(sHist.pass.files) \ (sHist.touched \cup sHist.pass.failed) :
              TasksOfFile(sHist.pass.after, g) =
                 IF g \in sHist.pass.parsed THEN ParseLines(sFs[g].body, g, 0)
                 ELSE TasksOfFile(sHist.pass.before, g)

\* a pass over two notes completed although one of them failed to open, the
\* cache held tasks of the failing note before, and the call returned the task
\* of the other note
C13_Witness ==
    \E x \in sHist.pass.failed, g \in sHist.pass.parsed :
        /\ Len(sHist.pass.files) = 2
        /\ g \notin sHist.touched
        /\ TasksOfFile(sHist.pass.before, x) # <<>>
        /\ TasksOfFile(sHist.pass.after, g) # <<>>
        /\ \E c \in Callers : sPc[c] = "done" /\ sRes[c] = OpenTasksOf(sHist.pass.after)

UnderRoot(tasks, root) ==
    \A k \in 1..Len(tasks) : startsWith(tasks[k].filePath, RootPath(root))

\* C14: once the configured root has changed, the cache stores only tasks of
\* files under the current root, and every call returns only tasks of files
\* under the root configured when it returns, also when a pass was in flight
\* at the change.
C14_NoTaskOfPreviousRoot ==
    /\ sCache # NoCache => UnderRoot(sCache.tasks, sRoot)
    /\ sHist.last.root # "" => UnderRoot(sHist.last.res, sHist.last.root)

\* C15: after a pass has completed, the cache holds no task, no recorded
\* version and no recorded modified-time of a file that the enumeration of
\* that pass did not list (stated for the runs in which the configured root
\* never changes, so that passes never overlap).
C15_NoEntryForAbsentFile ==
    (PassesRunning = {} /\ sCache # NoCache /\ sHist.passes > 0
       /\ sBudget.cfg = MaxConfigChanges) =>
        \A f \in ScanFiles \ Range(sHist.pass.files) :
            /\ TasksOfFile(sCache.tasks, f) = <<>>
            /\ ~Has(sCache.fileVersions, f)
            /\ ~Has(sCache.fileTimestamps, f)

\* what parseTask returned carries the fields the line was emitted from
SameFields ==
    /\ pOut # Null
    /\ pOut.status = StatusOf(pFields.kw)
    /\ pOut.priority = pFields.priority
    /\ pOut.difficulty = pFields.difficulty
    /\ pOut.dueDate = pFields.dueDate
    /\ pOut.text = pFields.text
    /\ pOut.filePath = N1
    /\ pOut.line = pFields.line

JanuaryStamp(day) == D2401 \o NumToStr(16 + (day - Day20240116))

\* the line carries none of the three markers
NoMarker(line) ==
    /\ ~RegexMatch(line, KwTODO).found
    /\ ~RegexMatch(line, KwCOMPLETE).found
    /\ ~RegexMatch(line, KwROLL).found

\* the result of toggling `orig` on a day with stamp `stamp`; m is the TODO
\* match of orig and r the COMPLETE match of the result
ToggledAsStated(orig, new, m, r, stamp) ==
    /\ m.found =>
          /\ r.found /\ HasLit(new, 1, MarkerOpen(KwCOMPLETE))
          /\ r.g1 = m.g1 /\ r.g2 = m.g2 /\ r.g3 = stamp /\ r.g4 = m.g4
    /\ (NoMarker(orig) /\ trim(orig) # <<>>) =>
          new = MarkerPrefix(KwTODO, <<"1">>, <<"1">>, stamp) \o <<" ">> \o orig
    /\ (NoMarker(orig) /\ trim(orig) = <<>>) =>
          new = MarkerPrefix(KwTODO, <<"1">>, <<"1">>, stamp)

\* C18: one toggle turns a TODO line into a COMPLETE line stamped with today's
\* date with priority, difficulty and description unchanged; a non-empty line
\* without a marker into a `TODO 1 1 <today>` marker followed by the original
\* text; a blank line into a bare `TODO 1 1 <today>` marker.
C18_ToggleResults ==
    Len(tDays) = 1 =>
        ToggledAsStated(tOrig, tLine, RegexMatch(tOrig, KwTODO),
                        RegexMatch(tLine, KwCOMPLETE), JanuaryStamp(tDays[1]))

\* a TODO line dated 240101 behind a list dash was toggled on a later day and
\* is a COMPLETE line now
C18_Witness ==
    /\ Len(tDays) = 1
    /\ tDays[1] > Day20240116
    /\ RegexMatch(tOrig, KwTODO).found
    /\ RegexMatch(tOrig, KwTODO).g3 = D240101
    /\ tOrig[1] = "-" /\ tOrig[2] = " "
    /\ RegexMatch(tLine, KwCOMPLETE).found

\* C19: a line that carries the rolled marker never is a TODO or COMPLETE task
\* again, however often it is toggled: the scanner's parser finds no Task in it.
C19_RolledIsTerminal ==
    (RegexMatch(tOrig, KwROLL).found /\ parseTask(tOrig, N1, 0) = Null) =>
        parseTask(tLine, N1, 0) = Null

\* C20: a run of rollTasksToToday with no workspace or no journal folder ends
\* with an error shown to the user and with every file as it was.
C20_ConfigProblemIsError ==
    (rRoot \in {"noWorkspace", "noJournalFolder"} /\ rPc \in {"Done", "Failed"}) =>
        /\ \E i \in 1..Len(rMsgs) : rMsgs[i].kind = "error"
        /\ rDisk = rDoc0
        /\ rDoc = rDoc0

\* a step in which the call in slot c returns
Returns(c) ==
    /\ sPc'[c] = "done"
    /\ \/ sPc[c] \notin {"idle", "done"}
       \/ /\ sBudget'.calls < sBudget.calls
          /\ \A d \in Callers : Free(d) => c <= d

\* C21: whenever a getOpenTasks call returns, from the fresh cache, after
\* waiting or after its own pass, every returned Task has status TODO and every
\* TODO Task the cache holds at that moment is in the result.
C21_OnlyAndAllOpenTasks ==
    [][\A c \in Callers :
          Returns(c) =>
             /\ \A k \in 1..Len(sRes'[c]) : sRes'[c][k].status = "TODO"
             /\ sCache' # NoCache =>
                   \A k \in 1..Len(sCache'.tasks) :
                       sCache'.tasks[k].status = "TODO" =>
                           sCache'.tasks[k] \in Range(sRes'[c])]_vars

\* a call returned an open task while the cache also holds a COMPLETE task,
\* which the call did not return
C21_Witness ==
    \E c \in Callers :
        /\ sPc[c] = "done"
        /\ sCache # NoCache
        /\ sRes[c] = OpenTasksOf(sCache.tasks)
        /\ Len(sRes[c]) > 0
        /\ \E k \in 1..Len(sCache.tasks) :
              /\ sCache.tasks[k].status = "COMPLETE"
              /\ sCache.tasks[k] \notin Range(sRes[c])

\* C22: a step of MarkSources rewrites a line of a document only if the line
\* still holds the content it had when the tasks were scanned at the start of
\* the run; a line that moved or changed since is not rewritten.
C22_StaleTaskNotUsed ==
    [][rPc = "MarkSources" =>
          \A f \in RollFiles :
             \A k \in 1..Len(rDoc[f]) :
                rDoc'[f][k] # rDoc[f][k] =>
                   (k <= Len(rDoc0[f]) /\ rDoc[f][k] = rDoc0[f][k])]_vars

\* the run that ended before this one reported success with every edit
\* applied and no file failing
EarlierRunSucceeded ==
    /\ Len(rRuns) = 1
    /\ \E i \in 1..Len(rRuns[1].msgs) : rRuns[1].msgs[i].what = "success"
    /\ rRuns[1].inserted
    /\ rRuns[1].failed = {}

\* C23: a second run of rollTasksToToday on the same day, after a run that
\* succeeded and with no edit in between, selects no task and leaves every
\* document as it was.
C23_SecondRunChangesNothing ==
    (EarlierRunSucceeded /\ rPc \in {"MarkSources", "Done", "Failed"}) =>
        (rPast = <<>> /\ rDoc = rDoc0)

\* the (priority, difficulty, dueDate, description) of every TODO marker line
\* of the notes, file by file
RECURSIVE TodoFieldsOf(_)
TodoFieldsOf(tasks) ==
    IF Len(tasks) = 0 THEN <<>>
    ELSE <<[priority |-> tasks[1].priority, difficulty |-> tasks[1].difficulty,
            dueDate |-> tasks[1].dueDate, text |-> tasks[1].text]>>
             \o TodoFieldsOf(Tail(tasks))

OpenFields(docs) == TodoFieldsOf(OpenTasksOf(ScanAll(<<N1, N2, TodayPath>>, docs)))

CountOf(seq, x) == Cardinality({i \in 1..Len(seq) : seq[i] = x})

SameMultiset(a, b) == \A x \in Range(a) \cup Range(b) : CountOf(a, x) = CountOf(b, x)

\* C24: a run that reports success leaves the multiset of the fields of the
\* TODO marker lines of all notes as it was before the run; every selected
\* task has exactly one TODO copy in today's note, and its original line no
\* longer parses as a TODO task.
C24_OpenTasksConserved ==
    (rPc = "Done" /\ ReportedSuccess /\ rRuns = <<>>) =>
        /\ SameMultiset(OpenFields(rDoc0), OpenFields(rDoc))
        /\ \A k \in 1..Len(rPast) :
              /\ CountOf(TodoFieldsOf(OpenTasksOf(ParseLines(rDoc[TodayPath], TodayPath, 0))),
                         TodoFieldsOf(<<rPast[k]>>)[1])
                    = CountOf(TodoFieldsOf(rPast), TodoFieldsOf(<<rPast[k]>>)[1])
              /\ rPast[k].filePath # TodayPath =>
                    LET t == parseTask(rDoc[rPast[k].filePath][rPast[k].line + 1],
                                       rPast[k].filePath, rPast[k].line)
                    IN  t = Null \/ t.status # "TODO"

\* the text a note has at document version v: a note starts at version 1 with
\* its first content and every edit switches the content
BodyAt(f, v) == IF v % 2 = 1 THEN BodyOne(f) ELSE BodyTwo(f)

\* the version the cache records for f and the records it holds for f come
\* from one parse of f
SameParse(f) ==
    Has(sCache.fileVersions, f) =>
        TasksOfFile(sCache.tasks, f) = ParseLines(BodyAt(f, sCache.fileVersions[f]), f, 0)

\* C25: at every point where another call or a save can observe the cache,
\* passes in flight included, the version recorded for a file and the Task
\* records cached for it come from the same parse of the file.
C25_VersionAndTasksFromOneParse ==
    sCache # NoCache => \A f \in ScanFiles : SameParse(f)

\* C26: a file that failed to open in one pass and is readable and unchanged
\* in the next pass has its TODO tasks in the result of that next pass.
C26_FailureAffectsOnePass ==
    \A f \in (sHist.pass.prevFailed \cap sHist.pass.kept \cap Range(sHist.pass.files))
                \ (sHist.pass.failed \cup sHist.touched) :
        Range(OpenTasksOf(ParseLines(sFs[f].body, f, 0)))
            \subseteq Range(OpenTasksOf(sHist.pass.after))

\* C27: whenever no call of getOpenTasks is in flight, the records cached for
\* each file with a recorded version are exactly the tasks parsed from the
\* file at that version.
C27_QuiescentCacheMatchesFiles ==
    (sCache # NoCache /\ \A c \in Callers : Free(c)) =>
        \A f \in ScanFiles :
            (Has(sCache.fileVersions, f) /\ sFs[f].exists) => SameParse(f)

\* the marker lines of the tasks, in their order
MarkerLinesOf(tasks) == [k \in 1..Len(tasks) |-> emitMarker(KwTODO, tasks[k])]

\* the heading lines a block may start with: none when the note has a section
\* heading for rolled over tasks, else the heading and a blank line, with or
\* without the empty line the inserted text begins with
HeadingsFor(old) ==
    IF \E i \in 1..Len(old) : IsRolledHeading(old[i])
    THEN { <<>> }
    ELSE { <<HRollovered, <<>>>>, <<<<>>, HRollovered, <<>>>> }

\* the new text is the old text with one block of adjacent lines put in
OneBlock(old, new, tasks) ==
    \E k \in 0..Len(old) : \E heading \in HeadingsFor(old) :
        new = SubSeq(old, 1, k) \o heading \o MarkerLinesOf(tasks)
                 \o SubSeq(old, k + 1, Len(old))

\* C28: an applied insert puts one block of adjacent lines into the note of
\* today: the heading and a blank line when the note has no section for
\* rolled over tasks, then one marker line for each selected task in the
\* order of discovery; the lines the note had stay in their order, each of
\* them before the block or after it.
C28_InsertIsOneBlock ==
    [][(rPc = "Insert" /\ rInserted') =>
          OneBlock(rDoc[TodayPath], rDoc'[TodayPath], rPast)]_vars

\* the zero-based indices of the lines of a document, and the lowest of a set
LinesIn(doc) == 0..(Len(doc) - 1)
Lowest(S) == CHOOSE i \in S : \A k \in S : i <= k

RolledIn(doc) == {i \in LinesIn(doc) : IsRolledHeading(doc[i + 1])}
TitlesIn(doc) == {i \in LinesIn(doc) : startsWith(doc[i + 1], <<"#", " ">>)}
TitlesAfter(doc, i) == {j \in TitlesIn(doc) : j > i}
SectionsAfter(doc, i) == {j \in LinesIn(doc) : j > i /\ startsWith(doc[j + 1], <<"#", "#", " ">>)}
BlanksAfter(doc, i) == {j \in LinesIn(doc) : j > i /\ trim(doc[j + 1]) = <<>>}

\* the line of the insertion point as stated: before the next title after the
\* section for rolled over tasks, after the first blank line below the title
StatedLine(doc) ==
    IF RolledIn(doc) # {}
    THEN (IF TitlesAfter(doc, Lowest(RolledIn(doc))) # {}
          THEN Lowest(TitlesAfter(doc, Lowest(RolledIn(doc))))
          ELSE Len(doc))
    ELSE IF TitlesIn(doc) # {}
    THEN (IF BlanksAfter(doc, Lowest(TitlesIn(doc))) # {}
          THEN Lowest(BlanksAfter(doc, Lowest(TitlesIn(doc)))) + 1
          ELSE Lowest(TitlesIn(doc)) + 1)
    ELSE Len(doc)

\* the line of the insertion point: the next `## ` heading after the section
\* for rolled over tasks, the first blank line below the title
SectionLine(doc) ==
    IF RolledIn(doc) # {}
    THEN (IF SectionsAfter(doc, Lowest(RolledIn(doc))) # {}
          THEN Lowest(SectionsAfter(doc, Lowest(RolledIn(doc))))
          ELSE Len(doc))
    ELSE IF TitlesIn(doc) # {}
    THEN (IF BlanksAfter(doc, Lowest(TitlesIn(doc))) # {}
          THEN Lowest(BlanksAfter(doc, Lowest(TitlesIn(doc))))
          ELSE Lowest(TitlesIn(doc)) + 1)
    ELSE Len(doc)

\* C29 as stated: with a heading for rolled over tasks the insertion point is
\* the line of the next top-level heading after it, or the end of the file;
\* else, with a top-level heading, the line after the first blank line that
\* follows the heading, or the line after the heading; else the end of the
\* file.  The line is between 0 and the line count.
C29_PointAsStated ==
    iPos # NoPosition =>
        /\ iPos.line = StatedLine(iDoc)
        /\ iPos.line \in 0..Len(iDoc)

\* C29, amended: with a heading for rolled over tasks the insertion point is
\* the start of the next line that begins with `## ` after it, or the end of
\* the file; else, with a line that begins with `# `, the start of the first
\* blank line after the first such line, or of the line after it; else the
\* end of the file.  The line is between 0 and the line count.
C29_PointAtSectionOrBlank ==
    iPos # NoPosition =>
        /\ iPos = Position(SectionLine(iDoc), 0)
        /\ iPos.line \in 0..Len(iDoc)

\* the position was computed for a note whose section for rolled over tasks
\* is followed by a title and then by another section
C29_Witness ==
    /\ iDoc = <<HRollovered, LNote, LLog, <<"x">>>>
    /\ iPos = Position(2, 0)

\* new is old with one `-=TODO ` token turned into `-=ROLL ` and every field
\* of the marker kept
TokenSwapped(old, new) ==
    /\ RegexMatch(old, KwTODO).found
    /\ RegexMatch(new, KwROLL) = RegexMatch(old, KwTODO)
    /\ \E i \in 1..Len(old) :
          /\ HasLit(old, i, TodoToken)
          /\ new = SubSeq(old, 1, i - 1) \o RollToken
                      \o SubSeq(old, i + Len(TodoToken), Len(old))

\* line k (one-based) of the document of filePath holds one of the tasks
HoldsSelected(doc, filePath, tasks, k) ==
    \E n \in 1..Len(tasks) :
        /\ tasks[n].line + 1 = k
        /\ parseTask(doc[k], filePath, k - 1) = tasks[n]

\* C30: marking a source file keeps its line count and changes only lines
\* that hold a selected task; on such a line only the `-=TODO ` token is
\* replaced, priority, difficulty, date and description stay as they are.
C30_MarkChangesOnlyTheToken ==
    [][(rPc = "MarkSources" /\ rIdx' = rIdx + 1) =>
          \A f \in RollFiles :
              /\ Len(rDoc'[f]) = Len(rDoc[f])
              /\ \A k \in 1..Len(rDoc[f]) :
                    rDoc'[f][k] # rDoc[f][k] =>
                       /\ f = rByFile[rIdx].filePath
                       /\ HoldsSelected(rDoc[f], f, rByFile[rIdx].tasks, k)
                       /\ TokenSwapped(rDoc[f][k], rDoc'[f][k])]_vars

\* the line numbers of the tasks fall strictly from each task to the next
StrictlyDescending(tasks) ==
    \A n \in 1..(Len(tasks) - 1) : tasks[n].line > tasks[n + 1].line

\* every task is on the line of the document its line number names
AllOnTheirLines(doc, filePath, tasks) ==
    \A n \in 1..Len(tasks) : HoldsSelected(doc, filePath, tasks, tasks[n].line + 1)

\* new is old with the token swapped on the lines of the tasks and with every
\* other line as it was
ExactlyMarked(old, new, filePath, tasks) ==
    /\ Len(new) = Len(old)
    /\ \A k \in 1..Len(old) :
          IF HoldsSelected(old, filePath, tasks, k)
          THEN TokenSwapped(old[k], new[k])
          ELSE new[k] = old[k]

\* C31: the selected tasks of a source file are rewritten in strictly
\* descending line order, and when they are on the lines their line numbers
\* name, an applied rewrite swaps the token on each of these lines and leaves
\* every other line as it was: no line is hit off by one.
C31_DescendingRewriteIsExact ==
    [][(rPc = "MarkSources" /\ rIdx' = rIdx + 1 /\ rDoc' # rDoc) =>
          /\ StrictlyDescending(SortDesc(rByFile[rIdx].tasks))
          /\ Range(SortDesc(rByFile[rIdx].tasks)) = Range(rByFile[rIdx].tasks)
          /\ AllOnTheirLines(rDoc[rByFile[rIdx].filePath], rByFile[rIdx].filePath,
                             rByFile[rIdx].tasks)
                => ExactlyMarked(rDoc[rByFile[rIdx].filePath],
                                 rDoc'[rByFile[rIdx].filePath],
                                 rByFile[rIdx].filePath, rByFile[rIdx].tasks)]_vars

\* a source note with selected tasks on lines 0 and 3, discovered in rising
\* order, was rewritten: both lines are marked, the lines between are as before
C31_Witness ==
    /\ rPc = "MarkSources"
    /\ rIdx > 1
    /\ Len(rByFile[1].tasks) = 2
    /\ rByFile[1].tasks[1].line = 0
    /\ rByFile[1].tasks[2].line = 3
    /\ rByFile[1].filePath # TodayPath
    /\ ExactlyMarked(rDoc0[rByFile[1].filePath], rDoc[rByFile[1].filePath],
                     rByFile[1].filePath, rByFile[1].tasks)
    /\ rDoc[rByFile[1].filePath] # rDoc0[rByFile[1].filePath]

\* the tasks in rising line order
SortAsc(tasks) == [n \in 1..Len(tasks) |-> SortDesc(tasks)[Len(tasks) + 1 - n]]

\* C32: the text an applied rewrite of a source file leaves does not depend
\* on the order of the tasks: rewriting in rising line order, or in the order
\* of discovery, gives the text the descending order gives.
C32_OrderDoesNotMatter ==
    [][(rPc = "MarkSources" /\ rIdx' = rIdx + 1 /\ rDoc' # rDoc) =>
          /\ rDoc'[rByFile[rIdx].filePath] =
                MarkLines(rDoc[rByFile[rIdx].filePath], rDoc[rByFile[rIdx].filePath],
                          SortAsc(rByFile[rIdx].tasks))
          /\ rDoc'[rByFile[rIdx].filePath] =
                MarkLines(rDoc[rByFile[rIdx].filePath], rDoc[rByFile[rIdx].filePath],
                          rByFile[rIdx].tasks)]_vars

\* a file with two selected tasks was rewritten, and the rewrite in rising
\* order of the text it had gives the text it has now
C32_Witness ==
    /\ rPc \in {"MarkSources", "Done"}
    /\ rIdx > 1
    /\ Len(rByFile[1].tasks) = 2
    /\ SortAsc(rByFile[1].tasks) # SortDesc(rByFile[1].tasks)
    /\ rDoc[rByFile[1].filePath] # rDoc0[rByFile[1].filePath]
    /\ rDoc[rByFile[1].filePath] =
          MarkLines(rDoc0[rByFile[1].filePath], rDoc0[rByFile[1].filePath],
                    SortAsc(rByFile[1].tasks))

\* a warning that names the file was shown
WarnedAbout(f) ==
    \E i \in 1..Len(rMsgs) : rMsgs[i].kind = "warning" /\ rMsgs[i].arg = f

\* the groups of the source files whose marking met no failure
GroupsMarked == {n \in 1..Len(rByFile) : rByFile[n].filePath \notin rFailed}

\* every source file whose marking met no failure is rewritten and saved
OthersMarkedAndSaved ==
    \A n \in GroupsMarked :
        /\ rDisk[rByFile[n].filePath] = rDoc[rByFile[n].filePath]
        /\ rByFile[n].filePath # TodayPath =>
              rDoc[rByFile[n].filePath] =
                 markFileAsMoved(rDoc0[rByFile[n].filePath], rByFile[n].tasks)

\* C33: when opening, editing or saving a source file fails while the sources
\* are marked, the run still goes through every other source file, which is
\* rewritten and saved, and a warning names the failing file.
C33_FailureReportedAndContained ==
    (rPc = "Done" /\ rIdx > Len(rByFile) /\ rIdx >= 1) =>
        /\ OthersMarkedAndSaved
        /\ \A f \in rFailed : WarnedAbout(f)

\* the call in slot c leaves the wait loop in this step
LeavesWait(c) == sPc[c] = "waiting" /\ sPc'[c] # "waiting"

BatchesOf(log) == SelectSeq(log, LAMBDA e : e.kind = "batch")

BatchCount(n) == (n + BatchSize - 1) \div BatchSize

\* batches and pauses alternate, beginning and ending with a batch
PauseBetweenBatches(log) ==
    /\ \A k \in 1..Len(log) : (log[k].kind = "batch") <=> (k % 2 = 1)
    /\ log # <<>> => log[Len(log)].kind = "batch"

\* C35: every reconciliation pass comes to its end with scanInProgress false,
\* whether it returned or was caught; by then every enumerated file was
\* scanned exactly once (and never more than once on the way), no batch held
\* more than 20 files, and there was a pause exactly between consecutive batches
C35_PassTerminatesAndReleases ==
    /\ <>(bPc = "done")
    /\ [](\A f \in BatchFiles : bScans[f] <= 1)
    /\ [](\A k \in 1..Len(bLog) : bLog[k].kind = "batch" => bLog[k].size \in 1..BatchSize)
    /\ [](bPc = "done" =>
            /\ ~bFlag
            /\ bResult \in {"returned", "caught"}
            /\ \A f \in BatchFiles : bScans[f] = 1
            /\ Len(BatchesOf(bLog)) = BatchCount(bFiles)
            /\ PauseBetweenBatches(bLog))

C35_Witness ==
    /\ bPc = "done"
    /\ bFiles = 2 * BatchSize + 1
    /\ bResult = "caught"
    /\ ~bFlag
    /\ Len(BatchesOf(bLog)) = 3
    /\ Len(bLog) = 5
    /\ \A f \in BatchFiles : bScans[f] = 1

\* C36: when a pass replaces the cache, no document was read for a file that
\* did not change since the pass before began (and that opened in that pass):
\* the file was not opened and not parsed, and it keeps the Task records the
\* cache held for it.
C36_UnchangedFileNotRead ==
    \A g \in (sHist.pass.kept \cap Range(sHist.pass.files)) \ sHist.pass.prevFailed :
        /\ g \notin sHist.pass.opened
        /\ g \notin sHist.pass.parsed
        /\ TasksOfFile(sHist.pass.after, g) = TasksOfFile(sHist.pass.before, g)

\* the run's scan is over and no document was edited since
JustScanned ==
    \/ rPc = "CreateTarget"
    \/ /\ rPc = "Done"
       /\ rMsgs # <<>>
       /\ rMsgs[Len(rMsgs)].what = "nothing"

\* the open tasks due by today that the lines of the enumerated documents hold
DueIn(docs) ==
    UNION { Range(filterPastTasks(OpenTasksOf(ParseLines(docs[f], f, 0)), rToday)) :
               f \in IF rRoot = "available" THEN Range(Enumerated) ELSE {} }

Unparsable(task) == parseTaskDateThrows(task.dueDate)

\* the tasks with a parsable date are filtered as if the others were not there
OthersFiltered ==
    fSelected = filterPastTasks(SelectSeq(fTasks, LAMBDA t : ~Unparsable(t)), fToday)

\* C38: the rollover filter returns for every list of open tasks; a task
\* whose date cannot be parsed is not selected, the other tasks are selected
\* as if it were not there, and the skipped tasks are counted: the filter
\* leaves a record of kind "skipped" when it skipped a task.
C38_UnparsableExcludedAndCounted ==
    fWhich = "taskRollover" =>
        /\ \A k \in 1..Len(fSelected) : ~Unparsable(fSelected[k])
        /\ OthersFiltered
        /\ (\E k \in 1..Len(fTasks) : Unparsable(fTasks[k])) =>
              \E k \in 1..Len(fLog) : fLog[k].kind = "skipped"

\* the run ended with the message that there is nothing to roll over
NothingFound ==
    /\ rPc = "Done"
    /\ rMsgs # <<>>
    /\ rMsgs[Len(rMsgs)].what = "nothing"

\* C39: when the scan of a run selects no task, the run ends at once: the
\* step that finds the selection empty leaves every document, every file on
\* disk and the active editor as they were, and at the end of such a run the
\* documents are those of the start of the run, nothing was inserted into
\* today's note and no source file was processed.
C39_NothingToRollChangesNothing ==
    /\ [][(rPc = "Discover" /\ rPast' = <<>>) =>
             /\ rPc' = "Done"
             /\ rDoc' = rDoc
             /\ rDisk' = rDisk
             /\ rActive' = rActive]_vars
    /\ [](NothingFound =>
             /\ rDoc = rDoc0
             /\ ~rInserted
             /\ rByFile = <<>>
             /\ rFailed = {})

\* a first run over notes that hold only completed tasks ended with nothing
\* to roll over, and today's note still does not exist
C39_Witness ==
    /\ NothingFound
    /\ rRuns = <<>>
    /\ rRoot = "available"
    /\ rDisk[TodayPath] = Missing
    /\ rDoc[TodayPath] = Missing
    /\ ScanAll(rEnum, rDoc) # <<>>

====
